---- MODULE Spec2Model ----
(***************************************************************************)
(* Model of the DORA metrics engine of changelog-notifier (metrics.js,     *)
(* detectors.js, parsing.js) and of the action's entry point (index.js).   *)
(*                                                                         *)
(* Strings are sequences of one-character strings.  JavaScript numbers are *)
(* records: NaN, or an exact rational n/d in lowest terms.  Instants are   *)
(* counted in ticks of 100 ms, so (t1 - t0) / 1000 of the code is the      *)
(* rational (t1 - t0) / TicksPerSecond.                                    *)
(***************************************************************************)
EXTENDS Integers, Sequences, FiniteSets, TLC

(***************************************************************************)
(* Characters and strings                                                  *)
(***************************************************************************)
UpperLetters == <<"A","B","C","D","E","F","G","H","I","J","K","L","M",
                  "N","O","P","Q","R","S","T","U","V","W","X","Y","Z">>
LowerLetters == <<"a","b","c","d","e","f","g","h","i","j","k","l","m",
                  "n","o","p","q","r","s","t","u","v","w","x","y","z">>
Digits == {"0","1","2","3","4","5","6","7","8","9"}

Range(f) == { f[i] : i \in DOMAIN f }

UpperSet == Range(UpperLetters)
LowerSet == Range(LowerLetters)

IsUpper(c) == c \in UpperSet
IsLower(c) == c \in LowerSet
IsDigit(c) == c \in Digits
\* \w of a JavaScript regular expression
IsWordChar(c) == IsUpper(c) \/ IsLower(c) \/ IsDigit(c) \/ c = "_"
\* \s of a JavaScript regular expression (the white space the inputs use)
IsSpace(c) == c \in {" ", "\t", "\n", "\r"}

LowerOf ==
  [c \in UpperSet |->
     LowerLetters[CHOOSE i \in DOMAIN UpperLetters : UpperLetters[i] = c]]

\* case folding of the /i flag
ToLower(c) == IF IsUpper(c) THEN LowerOf[c] ELSE c

\* the literal lit occurs in s at position i (1-based)
MatchAt(s, i, lit) ==
  /\ i >= 1
  /\ i + Len(lit) - 1 <= Len(s)
  /\ \A k \in 1..Len(lit) : s[i + k - 1] = lit[k]

\* the same, ignoring case
MatchAtCI(s, i, lit) ==
  /\ i >= 1
  /\ i + Len(lit) - 1 <= Len(s)
  /\ \A k \in 1..Len(lit) : ToLower(s[i + k - 1]) = ToLower(lit[k])

\* String.prototype.includes
Includes(s, lit) == \E i \in 1..(Len(s) + 1) : MatchAt(s, i, lit)

\* \b between s[i-1] and s[i]
WordBoundary(s, i) ==
  LET before == i - 1 >= 1 /\ i - 1 <= Len(s) /\ IsWordChar(s[i - 1])
      after  == i >= 1 /\ i <= Len(s) /\ IsWordChar(s[i])
  IN  before # after

\* \s+ covers s[i..j-1], j > i
SpacesBetween(s, i, j) ==
  /\ j > i
  /\ j - 1 <= Len(s)
  /\ \A k \in i..(j - 1) : IsSpace(s[k])

(***************************************************************************)
(* detectors.js                                                            *)
(***************************************************************************)
Str_revert   == <<"r","e","v","e","r","t">>
Str_Revert   == <<"R","e","v","e","r","t">>
Str_commit   == <<"c","o","m","m","i","t">>
Str_rollback == <<"r","o","l","l","b","a","c","k">>

\* /^revert[\(\:\s]/i
RevertPattern1(m) ==
  /\ MatchAtCI(m, 1, Str_revert)
  /\ Len(m) >= 7
  /\ (m[7] \in {"(", ":"} \/ IsSpace(m[7]))

\* /^Revert\s+"/
RevertPattern2(m) ==
  /\ MatchAt(m, 1, Str_Revert)
  /\ \E j \in 8..Len(m) : SpacesBetween(m, 7, j) /\ m[j] = "\""

\* /\brevert\s+commit\b/i
RevertPattern3(m) ==
  \E i \in 1..Len(m) :
    /\ WordBoundary(m, i)
    /\ MatchAtCI(m, i, Str_revert)
    /\ \E j \in (i + 7)..Len(m) :
         /\ SpacesBetween(m, i + 6, j)
         /\ MatchAtCI(m, j, Str_commit)
         /\ WordBoundary(m, j + 6)

\* faulty variant: "rollback" anywhere, also inside a longer word
RevertPattern4_anywhere(m) ==
  \E i \in 1..Len(m) : MatchAtCI(m, i, Str_rollback)

\* /\brollback\b/i
RevertPattern4(m) ==
  \E i \in 1..Len(m) :
    /\ WordBoundary(m, i)
    /\ MatchAtCI(m, i, Str_rollback)
    /\ WordBoundary(m, i + 8)

isRevertCommit(message) ==
  IF message = <<>>
    THEN FALSE
    ELSE \/ RevertPattern1(message)
         \/ RevertPattern2(message)
         \/ RevertPattern3(message)
         \/ RevertPattern4(message)

Str_hotfixSlash    == <<"h","o","t","f","i","x","/">>
Str_hotfixDash     == <<"h","o","t","f","i","x","-">>
Str_fixDash        == <<"f","i","x","-">>
Str_fixSlash       == <<"f","i","x","/">>
Str_emergencySlash == <<"e","m","e","r","g","e","n","c","y","/">>

\* faulty variant: only the patterns that name a hotfix
hotfixPatterns_hotfix_only ==
  <<Str_hotfixSlash, Str_hotfixDash>>

\* lines 515-521
hotfixPatterns ==
  <<Str_hotfixSlash, Str_hotfixDash, Str_fixDash, Str_fixSlash, Str_emergencySlash>>

isHotfixDeployment(ref) ==
  IF ref = <<>>
    THEN FALSE
    ELSE \E p \in DOMAIN hotfixPatterns : Includes(ref, hotfixPatterns[p])

\* faulty variant: the ref is looked at first
extractIncidentType_hotfix_first(message, ref) ==
  IF isHotfixDeployment(ref) THEN "hotfix"
  ELSE IF isRevertCommit(message) THEN "revert"
  ELSE "null"

\* "revert", "hotfix" or "null"
extractIncidentType(message, ref) ==
  IF isRevertCommit(message) THEN "revert"
  ELSE IF isHotfixDeployment(ref) THEN "hotfix"
  ELSE "null"

(***************************************************************************)
(* parsing.js                                                              *)
(***************************************************************************)
\* TASK_ID_PATTERN = /([A-Z]+-\d+)/ matches m at i: upper-case letters
\* m[i..j-1], a dash m[j], at least one digit m[j+1]
TaskIdMatchAt(m, i, j) ==
  /\ 1 <= i /\ i < j /\ j + 1 <= Len(m)
  /\ m[j] = "-"
  /\ IsDigit(m[j + 1])
  /\ \A k \in i..(j - 1) : IsUpper(m[k])

TASK_ID_PATTERN_test(m) ==
  \E j \in 2..Len(m) : \E i \in 1..(j - 1) : TaskIdMatchAt(m, i, j)

\* faulty variant: the pattern is matched without regard to case
hasTaskId_any_case(message) ==
  \E j \in 2..Len(message) :
    /\ j + 1 <= Len(message)
    /\ message[j] = "-"
    /\ IsDigit(message[j + 1])
    /\ IsUpper(message[j - 1]) \/ IsLower(message[j - 1])

\* lines 47-50
hasTaskId(message) ==
  IF message = <<>> THEN FALSE ELSE TASK_ID_PATTERN_test(message)

(***************************************************************************)
(* JavaScript numbers: NaN, or the rational n/d in lowest terms, d > 0     *)
(***************************************************************************)
RECURSIVE GCD(_, _)
GCD(a, b) == IF b = 0 THEN a ELSE GCD(b, a % b)

Abs(x) == IF x < 0 THEN -x ELSE x

NaN == [k |-> "nan", n |-> 0, d |-> 1]

Rat(n, d) ==
  LET g == GCD(Abs(n), d)
  IN  [k |-> "num", n |-> n \div g, d |-> d \div g]

Num(n) == Rat(n, 1)

IsNaN(a) == a.k = "nan"

NumAdd(a, b) ==
  IF IsNaN(a) \/ IsNaN(b) THEN NaN ELSE Rat(a.n * b.d + b.n * a.d, a.d * b.d)

NumSub(a, b) ==
  IF IsNaN(a) \/ IsNaN(b) THEN NaN ELSE Rat(a.n * b.d - b.n * a.d, a.d * b.d)

\* a / c for an integer c > 0
NumDiv(a, c) == IF IsNaN(a) THEN NaN ELSE Rat(a.n, a.d * c)

\* every comparison with NaN is false
NumLt(a, b) == ~IsNaN(a) /\ ~IsNaN(b) /\ a.n * b.d < b.n * a.d
NumGt(a, b) == NumLt(b, a)
NumLe(a, b) == ~IsNaN(a) /\ ~IsNaN(b) /\ a.n * b.d <= b.n * a.d

\* Math.min(...xs) for a non-empty xs: NaN as soon as one argument is NaN
RECURSIVE MathMin(_)
MathMin(xs) ==
  IF Len(xs) = 1 THEN xs[1]
  ELSE LET rest == MathMin(Tail(xs))
       IN  IF IsNaN(xs[1]) \/ IsNaN(rest) THEN NaN
           ELSE IF NumLt(xs[1], rest) THEN xs[1] ELSE rest

\* xs.reduce((a, b) => a + b, 0)
RECURSIVE ReduceSum(_)
ReduceSum(xs) ==
  IF xs = <<>> THEN Num(0)
  ELSE NumAdd(ReduceSum(SubSeq(xs, 1, Len(xs) - 1)), xs[Len(xs)])

(***************************************************************************)
(* Instants.  A time value is a number of ticks since the epoch, or NaN    *)
(* (Invalid Date).  A timestamp input is absent (undefined), a string that *)
(* Date cannot parse, or an ISO-8601 string of the instant t.              *)
(***************************************************************************)
MsPerSecond == 1000
MsPerTick == MsPerSecond \div 10
TicksPerSecond == MsPerSecond \div MsPerTick

Absent     == [kind |-> "absent", t |-> 0]
Garbage    == [kind |-> "garbage", t |-> 0]
Iso(t)     == [kind |-> "iso", t |-> t]

\* new Date(x).getTime()
NewDate(x) == IF x.kind = "iso" THEN Num(x.t) ELSE NaN

\* (later - earlier) / 1000, in seconds
SecondsBetween(later, earlier) == NumDiv(NumSub(later, earlier), TicksPerSecond)

(***************************************************************************)
(* metrics.js: constants and the interval calculators                      *)
(***************************************************************************)
MAX_LEAD_TIME_DAYS == 30
MAX_CYCLE_TIME_DAYS == 180
\* faulty variant: the loop makes one attempt more
RETRY_ATTEMPTS_plus_one == 3 + 1
RETRY_ATTEMPTS == 3
RETRY_DELAY_MS == 1000

Null == [k |-> "null", n |-> 0, d |-> 1]

maxLeadTimeSeconds == MAX_LEAD_TIME_DAYS * 24 * 60 * 60
maxCycleTimeSeconds == MAX_CYCLE_TIME_DAYS * 24 * 60 * 60

\* getFirstCommitTime: the time value of the first commit of the pull
\* request, or Null when the request has no commits or listCommits fails
getFirstCommitTime(pr) ==
  IF pr.commits = "ok" THEN NewDate(pr.first) ELSE Null

\* faulty variant: the commit's own timestamp is preferred when it parses
LeadCommitTime_preferring_own(commit, pr) ==
  IF ~IsNaN(NewDate(commit.timestamp)) THEN NewDate(commit.timestamp)
  ELSE IF pr.kind = "pr"
    THEN LET first == getFirstCommitTime(pr)
         IN  IF first # Null THEN first ELSE NewDate(commit.timestamp)
    ELSE NewDate(commit.timestamp)

\* faulty variant: a failed lookup leaves the commit without start instant
LeadCommitTime_without_fallback(commit, pr) ==
  IF pr.kind = "pr"
    THEN LET first == getFirstCommitTime(pr)
         IN  IF first # Null THEN first ELSE NewDate(commit.timestamp)
    ELSE IF pr.kind = "error" THEN NaN
    ELSE NewDate(commit.timestamp)

\* lines 229-246: the start instant of a commit's lead time; getPRInfo
\* gives no pull request when none is associated or when the lookup fails
LeadCommitTime(commit, pr) ==
  IF pr.kind = "pr"
    THEN LET first == getFirstCommitTime(pr)
         IN  IF first # Null THEN first ELSE NewDate(commit.timestamp)
    ELSE NewDate(commit.timestamp)

\* line 236: toISOString of an Invalid Date throws a RangeError, which the
\* handler of line 265 catches: the commit is skipped
LeadIterationThrows(pr) ==
  pr.kind = "pr" /\ getFirstCommitTime(pr) # Null /\ IsNaN(getFirstCommitTime(pr))

\* faulty variant: a lead time above the ceiling is discarded
LeadSamples_discarding(deploymentTime, commitTime) ==
  LET leadTimeSeconds == SecondsBetween(deploymentTime, commitTime)
  IN  IF NumLt(leadTimeSeconds, Num(0)) THEN <<>>
      ELSE IF NumGt(leadTimeSeconds, Num(maxLeadTimeSeconds)) THEN <<>>
      ELSE <<leadTimeSeconds>>

\* lines 249-264: the samples (none or one) that a commit adds
LeadSamples(deploymentTime, commitTime) ==
  LET leadTimeSeconds == SecondsBetween(deploymentTime, commitTime)
  IN  IF NumLt(leadTimeSeconds, Num(0)) THEN <<>>
      ELSE IF NumGt(leadTimeSeconds, Num(maxLeadTimeSeconds))
        THEN <<Num(maxLeadTimeSeconds)>>
        ELSE <<leadTimeSeconds>>

\* faulty variant: the first commit without a sample ends the loop
RECURSIVE validLeadTimesOf_stopping(_, _, _, _)
validLeadTimesOf_stopping(commits, prs, deploymentTime, i) ==
  IF i = 0 THEN <<>>
  ELSE LET earlier == validLeadTimesOf_stopping(commits, prs, deploymentTime, i - 1)
       IN  IF Len(earlier) < i - 1 THEN earlier
           ELSE earlier \o
                (IF LeadIterationThrows(prs[i]) THEN <<>>
                 ELSE LeadSamples(deploymentTime, LeadCommitTime(commits[i], prs[i])))

\* the loop of lines 223-269 over commits[1..i] with the lookup results prs
RECURSIVE validLeadTimesOf(_, _, _, _)
validLeadTimesOf(commits, prs, deploymentTime, i) ==
  IF i = 0 THEN <<>>
  ELSE validLeadTimesOf(commits, prs, deploymentTime, i - 1) \o
       (IF LeadIterationThrows(prs[i]) THEN <<>>
        ELSE LeadSamples(deploymentTime, LeadCommitTime(commits[i], prs[i])))

\* faulty variant: no sample gives the value 0
MeanOf_zero_when_empty(samples) ==
  IF Len(samples) = 0 THEN Num(0) ELSE NumDiv(ReduceSum(samples), Len(samples))

\* lines 271-280 and 347-356: Null for no sample, else sum / length
MeanOf(samples) ==
  IF Len(samples) = 0 THEN Null ELSE NumDiv(ReduceSum(samples), Len(samples))

\* faulty variant: the token is not required
calculateLeadTimes_without_token(commits, githubToken, deploymentTime, prs) ==
  LET samples == validLeadTimesOf(commits, prs, deploymentTime, Len(commits))
  IN  [samples |-> samples, mean |-> MeanOf(samples)]

\* calculateLeadTimes, given the answers prs of the pull-request lookups:
\* the sample list and the value returned
calculateLeadTimes(commits, githubToken, deploymentTime, prs) ==
  IF ~githubToken THEN [samples |-> <<>>, mean |-> Null]
  ELSE LET samples == validLeadTimesOf(commits, prs, deploymentTime, Len(commits))
       IN  [samples |-> samples, mean |-> MeanOf(samples)]

\* the first truthy of task.timestamp, task.created, task.createdAt
TaskCreatedField(task) ==
  IF task.timestamp # Absent THEN task.timestamp
  ELSE IF task.created # Absent THEN task.created
  ELSE task.createdAt

\* faulty variant: a task that is not found counts as a cycle time of 0
CycleSamples_counting_missing(commit, answer, deploymentTime) ==
  IF ~TASK_ID_PATTERN_test(commit.message) THEN <<>>
  ELSE IF answer.kind = "throw" THEN <<>>
  ELSE IF answer.kind = "null" THEN <<Num(0)>>
  ELSE LET taskCreatedTime == NewDate(TaskCreatedField(answer))
           cycleTimeSeconds == SecondsBetween(deploymentTime, taskCreatedTime)
       IN  IF IsNaN(taskCreatedTime) THEN <<>>
           ELSE IF NumLt(cycleTimeSeconds, Num(0)) THEN <<>>
           ELSE IF NumGt(cycleTimeSeconds, Num(maxCycleTimeSeconds))
             THEN <<Num(maxCycleTimeSeconds)>>
             ELSE <<cycleTimeSeconds>>

\* lines 301-340: the samples (none or one) that a commit adds, for the
\* answer of yogileInstance.getTask to the commit's task id
CycleSamples(commit, answer, deploymentTime) ==
  IF ~TASK_ID_PATTERN_test(commit.message) THEN <<>>
  ELSE IF answer.kind = "throw" THEN <<>>
  ELSE IF answer.kind = "null" THEN <<>>
  ELSE LET taskCreatedTime == NewDate(TaskCreatedField(answer))
           cycleTimeSeconds == SecondsBetween(deploymentTime, taskCreatedTime)
       IN  IF IsNaN(taskCreatedTime) THEN <<>>
           ELSE IF NumLt(cycleTimeSeconds, Num(0)) THEN <<>>
           ELSE IF NumGt(cycleTimeSeconds, Num(maxCycleTimeSeconds))
             THEN <<Num(maxCycleTimeSeconds)>>
             ELSE <<cycleTimeSeconds>>

RECURSIVE validCycleTimesOf(_, _, _, _)
validCycleTimesOf(commits, answers, deploymentTime, i) ==
  IF i = 0 THEN <<>>
  ELSE validCycleTimesOf(commits, answers, deploymentTime, i - 1) \o
       CycleSamples(commits[i], answers[i], deploymentTime)

\* calculateCycleTimes, given the answers of getTask
calculateCycleTimes(commits, yogileInstance, deploymentTime, answers) ==
  IF ~yogileInstance THEN [samples |-> <<>>, mean |-> Null]
  ELSE LET samples == validCycleTimesOf(commits, answers, deploymentTime, Len(commits))
       IN  [samples |-> samples, mean |-> MeanOf(samples)]

\* line 229: the commits getPRInfo is called for
LeadLookups(commits, githubToken) ==
  IF ~githubToken THEN {} ELSE DOMAIN commits

\* lines 301-309: the commits getTask is called for
CycleLookups(commits, yogileInstance) ==
  IF ~yogileInstance THEN {}
  ELSE { i \in DOMAIN commits : TASK_ID_PATTERN_test(commits[i].message) }

\* commits.some(commit => extractIncidentType(commit.message, ref) === 'revert')
hasRevertCommit(commits, ref) ==
  \E i \in DOMAIN commits : extractIncidentType(commits[i].message, ref) = "revert"

\* calculateMTTR for a non-empty commit list
calculateMTTR(commits, ref, deploymentTime) ==
  LET commitTimes == [i \in DOMAIN commits |-> NewDate(commits[i].timestamp)]
      incidentStart == MathMin(commitTimes)
      recoveryTimeSeconds == SecondsBetween(deploymentTime, incidentStart)
  IN  IF NumLe(recoveryTimeSeconds, Num(0)) THEN Null
      ELSE IF hasRevertCommit(commits, ref) THEN recoveryTimeSeconds
      ELSE IF extractIncidentType(<<>>, ref) = "hotfix" THEN recoveryTimeSeconds
      ELSE Null

\* faulty variant: both signals are required
detectFailures_requiring_both(commits, ref) ==
  LET hasRevert == \E i \in DOMAIN commits : isRevertCommit(commits[i].message)
      isHotfix == isHotfixDeployment(ref)
  IN  hasRevert /\ isHotfix

\* faulty variant: only a revert commit is a failure
detectFailures_reverts_only(commits, ref) ==
  LET hasRevert == \E i \in DOMAIN commits : isRevertCommit(commits[i].message)
      isHotfix == isHotfixDeployment(ref)
  IN  hasRevert

\* lines 400-404
detectFailures(commits, ref) ==
  LET hasRevert == \E i \in DOMAIN commits : isRevertCommit(commits[i].message)
      isHotfix == isHotfixDeployment(ref)
  IN  hasRevert \/ isHotfix

(***************************************************************************)
(* metrics.js: the InfluxDB line protocol                                  *)
(***************************************************************************)
\* a JavaScript value handed over as a tag or a field
JsNumber(x)  == [type |-> "number", n |-> x, s |-> <<>>, b |-> FALSE]
JsBoolean(b) == [type |-> "boolean", n |-> Num(0), s |-> <<>>, b |-> b]
JsString(s)  == [type |-> "string", n |-> Num(0), s |-> s, b |-> FALSE]

\* an own property of an object, in the order of Object.entries
Entry(key, value) == [key |-> key, value |-> value]

\* the integer m * 10^e, for integers beyond 2^31
Big(m, e) == [m |-> m, e |-> e]

DigitChars == <<"0","1","2","3","4","5","6","7","8","9">>

RECURSIVE NatText(_)
NatText(n) ==
  IF n < 10 THEN <<DigitChars[n + 1]>>
  ELSE NatText(n \div 10) \o <<DigitChars[(n % 10) + 1]>>

\* the digits after the decimal point of r/d, r < d, d a divisor of a power
\* of ten
RECURSIVE FractionText(_, _)
FractionText(r, d) ==
  IF r = 0 THEN <<>>
  ELSE <<DigitChars[((r * 10) \div d) + 1]>> \o FractionText((r * 10) % d, d)

\* Number.prototype.toString of NaN and of a number below 10^21 with a
\* finite decimal expansion
toString(x) ==
  IF IsNaN(x) THEN <<"N","a","N">>
  ELSE LET a == Abs(x.n)
           sign == IF x.n < 0 THEN <<"-">> ELSE <<>>
       IN  IF x.d = 1
             THEN sign \o NatText(a)
             ELSE sign \o NatText(a \div x.d) \o <<".">>
                       \o FractionText(a % x.d, x.d)

\* the template literal ${timestamp} of an integer m * 10^e below 10^21
BigText(t) ==
  IF t.m = 0 THEN <<"0">>
  ELSE NatText(t.m) \o [i \in 1..t.e |-> "0"]

\* String(value)
String(value) ==
  IF value.type = "number" THEN toString(value.n)
  ELSE IF value.type = "boolean"
    THEN (IF value.b THEN <<"t","r","u","e">> ELSE <<"f","a","l","s","e">>)
  ELSE value.s

Number_isInteger(x) == ~IsNaN(x) /\ x.d = 1

\* faulty variant: spaces are left as they are
RECURSIVE escapeTag_keeping_spaces(_)
escapeTag_keeping_spaces(str) ==
  IF str = <<>> THEN <<>>
  ELSE (IF Head(str) \in {",", "="}
          THEN <<"\\", Head(str)>>
          ELSE <<Head(str)>>) \o escapeTag_keeping_spaces(Tail(str))

\* str.replace(/[,= ]/g, '\\$&')
RECURSIVE escapeTag(_)
escapeTag(str) ==
  IF str = <<>> THEN <<>>
  ELSE (IF Head(str) \in {",", "=", " "}
          THEN <<"\\", Head(str)>>
          ELSE <<Head(str)>>) \o escapeTag(Tail(str))

\* str.replace(/"/g, '\\"')
RECURSIVE EscapeQuotes(_)
EscapeQuotes(str) ==
  IF str = <<>> THEN <<>>
  ELSE (IF Head(str) = "\""
          THEN <<"\\", "\"">>
          ELSE <<Head(str)>>) \o EscapeQuotes(Tail(str))

\* faulty variant: an integer is written without the i suffix
formatFieldValue_without_suffix(value) ==
  IF value.type = "number"
    THEN toString(value.n)
  ELSE IF value.type = "boolean"
    THEN String(value)
  ELSE <<"\"">> \o EscapeQuotes(String(value)) \o <<"\"">>

\* lines 146-154
formatFieldValue(value) ==
  IF value.type = "number"
    THEN (IF Number_isInteger(value.n)
            THEN toString(value.n) \o <<"i">>
            ELSE toString(value.n))
  ELSE IF value.type = "boolean"
    THEN String(value)
  ELSE <<"\"">> \o EscapeQuotes(String(value)) \o <<"\"">>

\* Array.prototype.join
RECURSIVE Join(_, _)
Join(parts, separator) ==
  IF parts = <<>> THEN <<>>
  ELSE IF Len(parts) = 1 THEN parts[1]
  ELSE parts[1] \o separator \o Join(Tail(parts), separator)

\* faulty variant: the fields are written before the tags
createLineProtocol_fields_first(measurement, tags, fields, timestamp) ==
  LET tagStr ==
        Join([i \in DOMAIN tags |->
                escapeTag(tags[i].key) \o <<"=">>
                  \o escapeTag(String(tags[i].value))], <<",">>)
      fieldStr ==
        Join([i \in DOMAIN fields |->
                escapeTag(fields[i].key) \o <<"=">>
                  \o formatFieldValue(fields[i].value)], <<",">>)
  IN  measurement \o <<",">> \o fieldStr \o <<" ">> \o tagStr \o <<" ">>
        \o BigText(timestamp)

\* lines 120-130; tags and fields are the entries of the two objects
createLineProtocol(measurement, tags, fields, timestamp) ==
  LET tagStr ==
        Join([i \in DOMAIN tags |->
                escapeTag(tags[i].key) \o <<"=">>
                  \o escapeTag(String(tags[i].value))], <<",">>)
      fieldStr ==
        Join([i \in DOMAIN fields |->
                escapeTag(fields[i].key) \o <<"=">>
                  \o formatFieldValue(fields[i].value)], <<",">>)
  IN  measurement \o <<",">> \o tagStr \o <<" ">> \o fieldStr \o <<" ">>
        \o BigText(timestamp)

(***************************************************************************)
(* Inputs of the model                                                     *)
(***************************************************************************)
\* the longest commit list
MaxCommits == 2
\* the times, in ticks, that one awaited computation can take
AwaitTicks == {0, 1}

\* the clock when the entry operation is called
T0 == 2 * 100000000

Msg_feat   == <<"f","e","a","t",":"," ","x">>
Msg_task   == <<"f","e","a","t","(","T","E","C","H","-","1",")",":"," ","x">>
Msg_revert == <<"R","e","v","e","r","t"," ","\"","x","\"">>

Ref_main   == <<"r","e","f","s","/","h","e","a","d","s","/","m","a","i","n">>
Ref_hotfix == <<"r","e","f","s","/","h","e","a","d","s","/","h","o","t","f","i","x","/","x">>

Commit(message, timestamp) == [message |-> message, timestamp |-> timestamp]

\* the commits a deployment is made of: one older than the lead-time
\* ceiling, one without timestamp, one of the future, one of this very
\* instant, one whose timestamp Date cannot parse
CommitPool ==
  { Commit(Msg_task, Iso(T0 - maxLeadTimeSeconds * TicksPerSecond - 1)),
    Commit(Msg_revert, Absent),
    Commit(Msg_revert, Iso(T0 + 1)),
    Commit(Msg_feat, Iso(T0)),
    Commit(Msg_feat, Garbage) }

CommitLists == UNION { [1..n -> CommitPool] : n \in 0..MaxCommits }

Refs == { Ref_main, Ref_hotfix }

\* what the pull-request lookups answer for one commit
PR(commits, first) == [kind |-> "pr", commits |-> commits, first |-> first]
NoPR == [kind |-> "none", commits |-> "empty", first |-> Absent]
PRAnswers ==
  { NoPR,
    [kind |-> "error", commits |-> "empty", first |-> Absent],
    PR("ok", Iso(T0 - 3600 * TicksPerSecond)),
    PR("ok", Garbage),
    PR("empty", Absent),
    PR("error", Absent) }

\* what yogileInstance.getTask answers for one task id
Task(timestamp, created, createdAt) ==
  [kind |-> "task", timestamp |-> timestamp, created |-> created,
   createdAt |-> createdAt]
TaskAnswers ==
  { [kind |-> "throw", timestamp |-> Absent, created |-> Absent, createdAt |-> Absent],
    [kind |-> "null", timestamp |-> Absent, created |-> Absent, createdAt |-> Absent],
    Task(Iso(T0 - 86400 * TicksPerSecond), Absent, Absent),
    Task(Absent, Iso(T0 - maxCycleTimeSeconds * TicksPerSecond - 1), Absent),
    Task(Absent, Absent, Iso(T0 + 2)),
    Task(Iso(T0), Absent, Absent),
    Task(Garbage, Absent, Absent),
    Task(Absent, Absent, Absent) }

\* error messages, as sequences of the fragments they are built from
Err_fetch      == <<"fetch failed">>
Err_url        == <<"Failed to parse URL">>
Err_http(status, text) == <<"HTTP ", status, ": ", text>>

VARIABLES
  commits, ref, githubToken, yogileInstance, influxdbUrl,  \* config
  pc,               \* where recordAndPushMetrics stands
  clock,            \* the system clock, in ticks
  timestamp,        \* line 46
  hasTask,          \* line 47
  metrics,          \* line 57: the points pushed so far
  warnings,         \* the metric steps whose failure core.warning reported
  validLeadTimes,   \* the sample list of calculateLeadTimes
  validCycleTimes,  \* the sample list of calculateCycleTimes
  attempt,          \* the loop variable of pushWithRetry
  inFlight,         \* requests sent and not yet answered
  requests,         \* the requests sent, in order
  errors,           \* the error of every failed attempt, in order
  delays,           \* the sleeps performed, in ms, in order
  rejection,        \* the error recordAndPushMetrics rejects with, or <<>>
  mainPc,           \* where main of index.js stands
  prefixes,         \* index.js line 17
  coreLog,          \* the calls of core.info, core.warning, core.setFailed
  changelogText,    \* index.js line 49, or Null before
  telegram,         \* the requests sent to the Telegram API
  lookups,          \* the commits a pull-request or task lookup was issued for
  fn,               \* the function called on its own, or "none"
  args,             \* its arguments
  ret               \* what it returned

vars == <<commits, ref, githubToken, yogileInstance, influxdbUrl, pc, clock,
          timestamp, hasTask, metrics, warnings, validLeadTimes,
          validCycleTimes, attempt, inFlight, requests, errors, delays,
          rejection, mainPc, prefixes, coreLog, changelogText, telegram,
          lookups, fn, args, ret>>

config == <<commits, ref, githubToken, yogileInstance, influxdbUrl>>
pushVars == <<attempt, inFlight, requests, errors, delays, rejection>>
mainVars == <<mainPc, prefixes, coreLog, changelogText, telegram>>
fnVars == <<fn, args, ret>>

\* no lookup issued yet
NoLookups == [pr |-> {}, task |-> {}]

\* changelogText before line 49 of index.js assigns it
NoText == [set |-> FALSE, lines |-> <<>>]

(***************************************************************************)
(* recordAndPushMetrics                                                    *)
(***************************************************************************)
projectName == "p"
repository  == "r"
environment == "production"

\* the arguments of one createLineProtocol call: one line of the payload
Point(measurement, tags, fields, ts) ==
  [measurement |-> measurement, tags |-> tags, fields |-> fields, timestamp |-> ts]

\* lines 50-55
CommonTags(task) ==
  [project |-> projectName, repository |-> repository,
   environment |-> environment, has_task |-> IF task THEN "yes" ELSE "no"]

tags == CommonTags(hasTask)

\* faulty variant: the deployment marker is not recorded
InitialMetrics_without_marker(task, ts) == <<>>

\* lines 57-60: the payload starts with the deployment marker
InitialMetrics(task, ts) ==
  <<Point("deployment", CommonTags(task), [count |-> Num(1)], ts)>>

\* faulty variant: the error of a metric step is not caught
AfterMetricStep_uncaught(following, thrown) ==
  IF thrown THEN "rejected" ELSE following

\* faulty variant: the error of a metric step ends the computation of the metrics
AfterMetricStep_skipping(following, thrown) ==
  IF thrown THEN "push" ELSE following

\* lines 69-71, 80-82 and 102-104: the handler of a metric step logs the
\* error and the function goes on with the step that follows
AfterMetricStep(following, thrown) == following

Init ==
  /\ commits \in CommitLists
  /\ ref \in Refs
  /\ githubToken \in BOOLEAN
  /\ yogileInstance \in BOOLEAN
  /\ influxdbUrl = "up"
  /\ pc = "entry"
  /\ clock = T0
  /\ timestamp = 0
  /\ hasTask = FALSE
  /\ metrics = <<>>
  /\ warnings = {}
  /\ validLeadTimes = <<>>
  /\ validCycleTimes = <<>>
  /\ attempt = 0
  /\ inFlight = 0
  /\ requests = <<>>
  /\ errors = <<>>
  /\ delays = <<>>
  /\ rejection = <<>>
  /\ mainPc = "none"
  /\ prefixes = <<>>
  /\ coreLog = <<>>
  /\ changelogText = NoText
  /\ telegram = <<>>
  /\ lookups = NoLookups
  /\ fn = "none"
  /\ args = <<>>
  /\ ret = <<>>

\* lines 31-61: no commits, no metrics; else the deployment marker
Begin ==
  /\ pc = "entry"
  /\ IF Len(commits) = 0
       THEN /\ pc' = "resolved"
            /\ UNCHANGED <<timestamp, hasTask, metrics>>
       ELSE /\ timestamp' = clock
            /\ hasTask' = \E i \in DOMAIN commits : hasTaskId(commits[i].message)
            /\ metrics' = InitialMetrics(hasTask', clock)
            /\ pc' = "lead"
  /\ UNCHANGED <<config, mainVars, fnVars, lookups, clock, warnings, validLeadTimes, validCycleTimes, pushVars>>

\* lines 63-71: calculateLeadTimes and the lead_time point.  The call throws
\* when github.getOctokit or github.context.repo (lines 218-219) throws.
LeadTime ==
  /\ pc = "lead"
  /\ IF ~githubToken
       THEN LET result == calculateLeadTimes(commits, githubToken, Num(clock),
                                             [i \in DOMAIN commits |-> NoPR])
                avgLeadTime == result.mean
            IN  /\ pc' = AfterMetricStep("cycle", FALSE)
                /\ validLeadTimes' = result.samples
                /\ lookups' = [lookups EXCEPT !.pr = LeadLookups(commits, githubToken)]
                /\ metrics' =
                     IF avgLeadTime # Null
                       THEN Append(metrics, Point("lead_time", tags,
                              [seconds |-> avgLeadTime], timestamp))
                       ELSE metrics
                /\ UNCHANGED <<clock, warnings>>
       ELSE \E thrown \in BOOLEAN :
            /\ pc' = AfterMetricStep("cycle", thrown)
            /\ IF thrown
                THEN /\ warnings' = warnings \cup {"lead_time"}
                     /\ UNCHANGED <<clock, validLeadTimes, metrics, lookups>>
                ELSE \E prs \in [DOMAIN commits -> PRAnswers], dt \in AwaitTicks :
                       LET result == calculateLeadTimes(commits, githubToken, Num(clock), prs)
                           avgLeadTime == result.mean
                       IN  /\ validLeadTimes' = result.samples
                           /\ lookups' = [lookups EXCEPT !.pr = LeadLookups(commits, githubToken)]
                           /\ clock' = clock + dt
                           /\ metrics' =
                                IF avgLeadTime # Null
                                  THEN Append(metrics, Point("lead_time", tags,
                                         [seconds |-> avgLeadTime], timestamp))
                                  ELSE metrics
                           /\ UNCHANGED warnings
  /\ UNCHANGED <<config, mainVars, fnVars, timestamp, hasTask, validCycleTimes, pushVars>>

\* indices of the commits whose message carries a task id: the only ones
\* for which getTask is called
TaskCommits == { i \in DOMAIN commits : TASK_ID_PATTERN_test(commits[i].message) }

NoAnswer == [kind |-> "null", timestamp |-> Absent, created |-> Absent, createdAt |-> Absent]

\* lines 73-83: calculateCycleTimes and the cycle_time point.  The call
\* throws when the handler of line 342 itself throws.
CycleTime ==
  /\ pc = "cycle"
  /\ IF ~yogileInstance
       THEN /\ pc' = "detect"
            /\ UNCHANGED <<clock, validCycleTimes, metrics, warnings, lookups>>
       ELSE \E thrown \in BOOLEAN :
            /\ pc' = AfterMetricStep("detect", thrown)
            /\ IF thrown
                THEN /\ warnings' = warnings \cup {"cycle_time"}
                     /\ \E k \in DOMAIN commits :
                          lookups' = [lookups EXCEPT !.task =
                                        { i \in CycleLookups(commits, yogileInstance) : i < k }]
                     /\ UNCHANGED <<clock, validCycleTimes, metrics>>
                ELSE \E given \in [TaskCommits -> TaskAnswers], dt \in AwaitTicks :
                       LET answers == [i \in DOMAIN commits |->
                                         IF i \in DOMAIN given THEN given[i] ELSE NoAnswer]
                           result == calculateCycleTimes(commits, yogileInstance, Num(clock), answers)
                           avgCycleTime == result.mean
                       IN  /\ validCycleTimes' = result.samples
                           /\ lookups' = [lookups EXCEPT !.task = CycleLookups(commits, yogileInstance)]
                           /\ clock' = clock + dt
                           /\ metrics' =
                                IF avgCycleTime # Null
                                  THEN Append(metrics, Point("cycle_time", tags,
                                         [seconds |-> avgCycleTime], timestamp))
                                  ELSE metrics
                           /\ UNCHANGED warnings
  /\ UNCHANGED <<config, mainVars, fnVars, timestamp, hasTask, validLeadTimes, pushVars>>

\* lines 85-90
DetectFailure ==
  /\ pc = "detect"
  /\ pc' = "mttr"
  /\ metrics' = IF detectFailures(commits, ref)
                  THEN Append(metrics, Point("deployment_failure", tags,
                                             [count |-> Num(1)], timestamp))
                  ELSE metrics
  /\ UNCHANGED <<config, mainVars, fnVars, lookups, clock, timestamp, hasTask, warnings, validLeadTimes,
                 validCycleTimes, pushVars>>

\* faulty variant: the ref decides first
MttrTags_hotfix_first ==
  LET incidentType ==
        IF extractIncidentType(<<>>, ref) = "hotfix" THEN "hotfix"
        ELSE IF hasRevertCommit(commits, ref) THEN "revert"
        ELSE "unknown"
  IN  [project |-> tags.project, repository |-> tags.repository,
       environment |-> tags.environment, has_task |-> tags.has_task,
       incident_type |-> incidentType]

\* lines 96-99
MttrTags ==
  LET incidentType ==
        IF hasRevertCommit(commits, ref) THEN "revert"
        ELSE IF extractIncidentType(<<>>, ref) = "hotfix" THEN "hotfix"
        ELSE "unknown"
  IN  [project |-> tags.project, repository |-> tags.repository,
       environment |-> tags.environment, has_task |-> tags.has_task,
       incident_type |-> incidentType]

\* lines 92-104: calculateMTTR and the mttr point
MTTR ==
  /\ pc = "mttr"
  /\ \E thrown \in BOOLEAN :
     /\ pc' = AfterMetricStep("push", thrown)
     /\ IF thrown
         THEN /\ warnings' = warnings \cup {"mttr"}
              /\ UNCHANGED metrics
         ELSE LET recoveryTime == calculateMTTR(commits, ref, Num(clock))
              IN  /\ metrics' =
                       IF recoveryTime # Null
                         THEN Append(metrics, Point("mttr", MttrTags,
                                [seconds |-> recoveryTime], timestamp))
                         ELSE metrics
                  /\ UNCHANGED warnings
  /\ UNCHANGED <<config, mainVars, fnVars, lookups, clock, timestamp, hasTask, validLeadTimes,
                 validCycleTimes, pushVars>>

(***************************************************************************)
(* pushWithRetry and pushMetricsToInfluxDB                                 *)
(***************************************************************************)
influxdbBucket == "default"

\* lines 437-446: the request of one attempt
Request ==
  [url |-> <<influxdbUrl, "/write?db=", influxdbBucket, "&precision=ns">>,
   body |-> metrics]

\* how one attempt can end: "ok" or the message of the error thrown.
\* config.influxdbUrl names a server that answers ("up": 2xx or not), names
\* one behind a network that also drops requests ("flaky"), or is not set
\* ("absent": fetch rejects the URL 'undefined/write?...').
AttemptOutcomes ==
  CASE influxdbUrl = "up"     -> { <<"ok">>, Err_http("500", "boom") }
    [] influxdbUrl = "flaky"  -> { <<"ok">>, Err_http("500", "boom"), Err_fetch }
    [] influxdbUrl = "absent" -> { Err_url }

\* faulty variant: the error raised does not carry the message of the last error
RetryError_without_message(maxRetries, message) ==
  <<"Failed to push metrics after ", ToString(maxRetries), " attempts">>

\* line 420
RetryError(maxRetries, message) ==
  <<"Failed to push metrics after ", ToString(maxRetries), " attempts: ">> \o message

\* faulty variant: the same delay before every retry
RetryDelay_constant(n) == RETRY_DELAY_MS

\* line 422
RetryDelay(n) == RETRY_DELAY_MS * n

\* pushWithRetry as one call, from attempt n on: outcomes[i] is how attempt
\* i ends if it is made
RECURSIVE pushWithRetry(_, _, _)
pushWithRetry(outcomes, maxRetries, n) ==
  IF n > maxRetries
    THEN [status |-> "resolved", attempts |-> n - 1, errors |-> <<>>,
          delays |-> <<>>, rejection |-> <<>>]
  ELSE IF outcomes[n] = <<"ok">>
    THEN [status |-> "resolved", attempts |-> n, errors |-> <<>>,
          delays |-> <<>>, rejection |-> <<>>]
  ELSE IF n = maxRetries
    THEN [status |-> "rejected", attempts |-> n, errors |-> <<outcomes[n]>>,
          delays |-> <<>>, rejection |-> RetryError(maxRetries, outcomes[n])]
  ELSE LET rest == pushWithRetry(outcomes, maxRetries, n + 1)
       IN  [rest EXCEPT !.errors = <<outcomes[n]>> \o @,
                        !.delays = <<RetryDelay(n)>> \o @]

\* lines 106-109: await pushWithRetry(metrics, config, RETRY_ATTEMPTS)
Push ==
  /\ pc = "push"
  /\ IF Len(metrics) > 0
       THEN \E outcomes \in [1..RETRY_ATTEMPTS -> AttemptOutcomes] :
              LET result == pushWithRetry(outcomes, RETRY_ATTEMPTS, 1)
              IN  /\ pc' = result.status
                  /\ attempt' = result.attempts
                  /\ requests' = [i \in 1..result.attempts |-> Request]
                  /\ errors' = result.errors
                  /\ delays' = result.delays
                  /\ rejection' = result.rejection
       ELSE /\ pc' = "resolved"
            /\ UNCHANGED <<attempt, requests, errors, delays, rejection>>
  /\ UNCHANGED <<config, mainVars, fnVars, lookups, clock, timestamp, hasTask, metrics, warnings,
                 validLeadTimes, validCycleTimes, inFlight>>

(***************************************************************************)
(* pushWithRetry, step by step                                             *)
(***************************************************************************)
\* the payloads pushWithRetry is called with
Payloads ==
  { <<Point("deployment", CommonTags(t), [count |-> Num(1)], T0)>> : t \in BOOLEAN }
  \cup
  { <<Point("deployment", CommonTags(FALSE), [count |-> Num(1)], T0),
      Point("deployment_failure", CommonTags(FALSE), [count |-> Num(1)], T0)>> }

\* line 108 and line 413: pushWithRetry is entered, attempt = 1
InitPush ==
  /\ commits = <<Commit(Msg_feat, Iso(T0))>>
  /\ ref = Ref_main
  /\ githubToken = FALSE
  /\ yogileInstance = FALSE
  /\ influxdbUrl \in {"up", "flaky", "absent"}
  /\ metrics \in Payloads
  /\ pc = IF 1 <= RETRY_ATTEMPTS THEN "attempt" ELSE "resolved"
  /\ attempt = 1
  /\ clock = T0
  /\ timestamp = T0
  /\ hasTask = FALSE
  /\ warnings = {}
  /\ validLeadTimes = <<>>
  /\ validCycleTimes = <<>>
  /\ inFlight = 0
  /\ requests = <<>>
  /\ errors = <<>>
  /\ delays = <<>>
  /\ rejection = <<>>
  /\ mainPc = "none"
  /\ prefixes = <<>>
  /\ coreLog = <<>>
  /\ changelogText = NoText
  /\ telegram = <<>>
  /\ lookups = NoLookups
  /\ fn = "none"
  /\ args = <<>>
  /\ ret = <<>>

\* lines 415 and 440: the request of this attempt is sent
AttemptSend ==
  /\ pc = "attempt"
  /\ pc' = "inflight"
  /\ inFlight' = inFlight + 1
  /\ requests' = Append(requests, Request)
  /\ UNCHANGED <<config, mainVars, fnVars, lookups, clock, timestamp, hasTask, metrics, warnings,
                 validLeadTimes, validCycleTimes, attempt, errors, delays,
                 rejection>>

\* lines 416-424: the attempt ends: success returns, the last failure throws,
\* any other failure starts the sleep of RETRY_DELAY_MS * attempt
AttemptEnd ==
  /\ pc = "inflight"
  /\ inFlight' = inFlight - 1
  /\ \E outcome \in AttemptOutcomes :
       IF outcome = <<"ok">>
         THEN /\ pc' = "resolved"
              /\ UNCHANGED <<errors, delays, rejection>>
         ELSE /\ errors' = Append(errors, outcome)
              /\ IF attempt = RETRY_ATTEMPTS
                   THEN /\ rejection' = RetryError(RETRY_ATTEMPTS, outcome)
                        /\ pc' = "rejected"
                        /\ UNCHANGED delays
                   ELSE /\ delays' = Append(delays, RetryDelay(attempt))
                        /\ pc' = "sleep"
                        /\ UNCHANGED rejection
  /\ UNCHANGED <<config, mainVars, fnVars, lookups, clock, timestamp, hasTask, metrics, warnings,
                 validLeadTimes, validCycleTimes, attempt, requests>>

\* lines 424 and 413: the timer fires, the loop goes to the next attempt
SleepEnd ==
  /\ pc = "sleep"
  /\ attempt' = attempt + 1
  /\ pc' = IF attempt + 1 <= RETRY_ATTEMPTS THEN "attempt" ELSE "resolved"
  /\ UNCHANGED <<config, mainVars, fnVars, lookups, clock, timestamp, hasTask, metrics, warnings,
                 validLeadTimes, validCycleTimes, inFlight, requests, errors,
                 delays, rejection>>

Next ==
  \/ Begin
  \/ LeadTime
  \/ CycleTime
  \/ DetectFailure
  \/ MTTR
  \/ Push

Spec == Init /\ [][Next]_vars

\* recordAndPushMetrics on deployments whose commit messages do or do not
\* carry a task reference
MaxTagCommits == 2

TaskMessageCases ==
  { [message |-> <<"f","e","a","t","(","T","E","C","H","-","1","2","3",")",":"," ","a","d","d"," ","f","e","a","t","u","r","e">>,
     task |-> TRUE],
    [message |-> <<"f","e","a","t",":"," ","n","o"," ","t","a","s","k"," ","h","e","r","e">>,
     task |-> FALSE],
    [message |-> <<"t","e","c","h","-","1","2","3"," ","l","o","w","e","r","c","a","s","e">>,
     task |-> FALSE],
    [message |-> <<"t","e","C","H","-","1">>,
     task |-> TRUE],
    [message |-> <<"T","E","C","H","-","x">>,
     task |-> FALSE],
    [message |-> Msg_revert,
     task |-> FALSE] }

\* the revert is half an hour old, the other commits an hour
TagCommitPool ==
  { Commit(c.message,
           Iso(T0 - (IF c.message = Msg_revert THEN 1800 ELSE 3600) * TicksPerSecond)) :
      c \in TaskMessageCases }

TagCommitLists == UNION { [1..n -> TagCommitPool] : n \in 0..MaxTagCommits }

InitTags ==
  /\ commits \in TagCommitLists
  /\ ref \in Refs
  /\ githubToken \in BOOLEAN
  /\ yogileInstance = TRUE
  /\ influxdbUrl = "up"
  /\ pc = "entry"
  /\ clock = T0
  /\ timestamp = 0
  /\ hasTask = FALSE
  /\ metrics = <<>>
  /\ warnings = {}
  /\ validLeadTimes = <<>>
  /\ validCycleTimes = <<>>
  /\ attempt = 0
  /\ inFlight = 0
  /\ requests = <<>>
  /\ errors = <<>>
  /\ delays = <<>>
  /\ rejection = <<>>
  /\ mainPc = "none"
  /\ prefixes = <<>>
  /\ coreLog = <<>>
  /\ changelogText = NoText
  /\ telegram = <<>>
  /\ lookups = NoLookups
  /\ fn = "none"
  /\ args = <<>>
  /\ ret = <<>>

SpecTags == InitTags /\ [][Next]_vars

NextPush ==
  \/ AttemptSend
  \/ AttemptEnd
  \/ SleepEnd

SpecPush == InitPush /\ [][NextPush]_vars

(***************************************************************************)
(* pushWithRetry in the three delivery modes: InfluxDB (metrics.js) and    *)
(* the two Pushgateway variants of the module kept in metrics.test.js      *)
(***************************************************************************)
DeliveryModes == { "influxdb", "pushgateway", "pushgateway_deployment_id" }

jobName == "dora_metrics"

\* metrics.test.js line 973: Math.floor(Date.now() / 1000).toString()
deploymentId == ToString(clock \div TicksPerSecond)

\* the request of one attempt: metrics.js lines 437-446, metrics.test.js
\* lines 523-540 and lines 970-989; influxdbUrl stands for the endpoint
\* configured (config.influxdbUrl or config.pushgatewayUrl) and metrics for
\* the text registry.metrics() gives
DeliveryRequest ==
  CASE args.mode = "influxdb" -> Request
    [] args.mode = "pushgateway" ->
         [url |-> <<influxdbUrl, "/metrics/job/", jobName>>, body |-> metrics]
    [] args.mode = "pushgateway_deployment_id" ->
         [url |-> <<influxdbUrl, "/metrics/job/", jobName,
                    "/project/", tags.project,
                    "/repository/", tags.repository,
                    "/environment/", tags.environment,
                    "/deployment_id/", deploymentId>>,
          body |-> metrics]

\* pushWithRetry is entered in one of the modes, at some instant of a second
InitDelivery ==
  /\ commits = <<Commit(Msg_feat, Iso(T0))>>
  /\ ref = Ref_main
  /\ githubToken = FALSE
  /\ yogileInstance = FALSE
  /\ influxdbUrl \in {"up", "flaky", "absent"}
  /\ metrics \in Payloads
  /\ pc = IF 1 <= RETRY_ATTEMPTS THEN "attempt" ELSE "resolved"
  /\ attempt = 1
  /\ clock \in { T0, T0 + TicksPerSecond - 1 }
  /\ timestamp = T0
  /\ hasTask = FALSE
  /\ warnings = {}
  /\ validLeadTimes = <<>>
  /\ validCycleTimes = <<>>
  /\ inFlight = 0
  /\ requests = <<>>
  /\ errors = <<>>
  /\ delays = <<>>
  /\ rejection = <<>>
  /\ mainPc = "none"
  /\ prefixes = <<>>
  /\ coreLog = <<>>
  /\ changelogText = NoText
  /\ telegram = <<>>
  /\ lookups = NoLookups
  /\ fn = "pushWithRetry"
  /\ args \in [mode : DeliveryModes]
  /\ ret = <<>>

\* the request of this attempt is built and sent
DeliverySend ==
  /\ pc = "attempt"
  /\ pc' = "inflight"
  /\ inFlight' = inFlight + 1
  /\ requests' = Append(requests, DeliveryRequest)
  /\ UNCHANGED <<config, mainVars, fnVars, lookups, clock, timestamp, hasTask,
                 metrics, warnings, validLeadTimes, validCycleTimes, attempt,
                 errors, delays, rejection>>

\* await sleep(delay) is over: the clock has moved by the delay, the loop
\* goes to the next attempt
DeliverySleepEnd ==
  /\ pc = "sleep"
  /\ attempt' = attempt + 1
  /\ clock' = clock + delays[Len(delays)] \div MsPerTick
  /\ pc' = IF attempt + 1 <= RETRY_ATTEMPTS THEN "attempt" ELSE "resolved"
  /\ UNCHANGED <<config, mainVars, fnVars, lookups, timestamp, hasTask,
                 metrics, warnings, validLeadTimes, validCycleTimes, inFlight,
                 requests, errors, delays, rejection>>

NextDelivery ==
  \/ DeliverySend
  \/ AttemptEnd
  \/ DeliverySleepEnd

SpecDelivery == InitDelivery /\ [][NextDelivery]_vars

(***************************************************************************)
(* index.js: main                                                          *)
(***************************************************************************)
\* line 7: the characters escapeRegex matches
escapeRegex ==
  {"|", "{", "[", "]", "*", "_", "~", "}", "+", ")", "(", "#", ">", "!",
   "=", "-", "."}

\* s.replace(escapeRegex, '\\$1')
RECURSIVE Escape(_)
Escape(s) ==
  IF s = <<>> THEN <<>>
  ELSE (IF Head(s) \in escapeRegex THEN <<"\\", Head(s)>> ELSE <<Head(s)>>)
         \o Escape(Tail(s))

\* lines 92-96: the message up to its first line feed
FirstLine(message) ==
  IF \E i \in DOMAIN message : message[i] = "\n"
    THEN SubSeq(message, 1,
                (CHOOSE i \in DOMAIN message :
                   /\ message[i] = "\n"
                   /\ \A k \in 1..(i - 1) : message[k] # "\n") - 1)
    ELSE message

\* the end of the run of upper-case letters, or of digits, that starts at
\* m[i]: the first position past it
UpperRunEnd(m, i) ==
  CHOOSE k \in i..(Len(m) + 1) :
    /\ \A j \in i..(k - 1) : IsUpper(m[j])
    /\ k <= Len(m) => ~IsUpper(m[k])
DigitRunEnd(m, i) ==
  CHOOSE k \in i..(Len(m) + 1) :
    /\ \A j \in i..(k - 1) : IsDigit(m[j])
    /\ k <= Len(m) => ~IsDigit(m[k])

\* /\(([A-Z]+-\d+)\):/ matches m from the parenthesis m[i]: the dash is
\* m[d], the closing parenthesis m[e]
TaskSuffixAt(m, i) ==
  IF m[i] # "(" THEN [ok |-> FALSE, i |-> i, d |-> 0, e |-> 0]
  ELSE LET d == UpperRunEnd(m, i + 1)
           e == DigitRunEnd(m, d + 1)
       IN  [ok |-> /\ d > i + 1 /\ d <= Len(m) /\ m[d] = "-"
                   /\ e > d + 1 /\ e + 1 <= Len(m)
                   /\ m[e] = ")" /\ m[e + 1] = ":",
            i |-> i, d |-> d, e |-> e]

HasTaskSuffix(m) == \E i \in DOMAIN m : TaskSuffixAt(m, i).ok

\* the leftmost match
TaskSuffix(m) ==
  TaskSuffixAt(m, CHOOSE i \in DOMAIN m :
                    /\ TaskSuffixAt(m, i).ok
                    /\ \A k \in 1..(i - 1) : ~TaskSuffixAt(m, k).ok)

\* the prefixes the action knows, with their entries of locale.json
PrefixChars ==
  [feat |-> <<"f","e","a","t">>, fix |-> <<"f","i","x">>,
   hotfix |-> <<"h","o","t","f","i","x">>]
Locale_prefixes(prefix) == <<"locale.prefixes.", prefix>>
Locale_emojis(prefix) == <<"locale.emojis.", prefix>>

\* s.replace(lit, by): the first occurrence only
ReplaceFirst(s, lit, by) ==
  IF ~Includes(s, lit) THEN s
  ELSE LET i == CHOOSE i \in 1..(Len(s) + 1) :
                  /\ MatchAt(s, i, lit)
                  /\ \A k \in 1..(i - 1) : ~MatchAt(s, k, lit)
       IN  SubSeq(s, 1, i - 1) \o by \o SubSeq(s, i + Len(lit), Len(s))

\* what getCardInfo (lines 146-167) answers for one task id
NoCard == [kind |-> "null", title |-> <<>>, description |-> <<>>]
Card(title, description) ==
  [kind |-> "card", title |-> title, description |-> description]
CardAnswers ==
  { NoCard, Card(<<"T", ".">>, <<>>), Card(<<"T">>, <<"d">>) }

\* lines 92-134: the lines one commit adds under one prefix; header tells
\* whether the text holds the title of the prefix already
CommitLines(commit, prefix, card, header) ==
  LET firstLine == FirstLine(commit.message)
  IN  IF ~HasTaskSuffix(firstLine) THEN <<>>
      ELSE
        LET x        == TaskSuffix(firstLine)
            taskId   == SubSeq(firstLine, x.i + 1, x.e - 1)
            replaced == SubSeq(firstLine, 1, x.i - 1) \o <<":">>
                          \o SubSeq(firstLine, x.e + 2, Len(firstLine))
            escaped  == Escape(replaced)
            lit      == PrefixChars[prefix] \o <<":">>
            line     == IF card.kind = "card"
                          THEN Locale_emojis(prefix) \o <<" ">> \o Escape(card.title)
                          ELSE ReplaceFirst(escaped, lit, Locale_emojis(prefix))
        IN  IF ~Includes(escaped, lit) THEN <<>>
            ELSE (IF header THEN <<>>
                  ELSE <<[kind |-> "title", text |-> Locale_prefixes(prefix),
                          taskId |-> <<>>]>>)
                 \o <<[kind |-> "entry", text |-> line, taskId |-> taskId]>>
                 \o (IF card.kind = "card" /\ card.description # <<>>
                       THEN <<[kind |-> "problem", text |-> Escape(card.description),
                               taskId |-> <<>>]>>
                       ELSE <<>>)

HasTitle(lines, prefix) ==
  \E i \in DOMAIN lines :
    lines[i].kind = "title" /\ lines[i].text = Locale_prefixes(prefix)

\* lines 91-136: the commits i..Len(cs) under one prefix
RECURSIVE PrefixLines(_, _, _, _, _)
PrefixLines(cs, prefix, cards, lines, i) ==
  IF i > Len(cs) THEN lines
  ELSE PrefixLines(cs, prefix, cards,
                   lines \o CommitLines(cs[i], prefix, cards[i],
                                        HasTitle(lines, prefix)),
                   i + 1)

\* lines 88-144: the text, as the list of its lines
RECURSIVE getChangelogText(_, _, _, _, _)
getChangelogText(cs, ps, cards, lines, p) ==
  IF p > Len(ps) THEN lines
  ELSE LET after == PrefixLines(cs, ps[p], cards, lines, 1)
       IN  getChangelogText(cs, ps, cards,
                            IF HasTitle(after, ps[p])
                              THEN Append(after, [kind |-> "blank", text |-> <<>>,
                                                  taskId |-> <<>>])
                              ELSE after,
                            p + 1)

\* changelog.js lines 96-159: generateChangelog, the text as the list of
\* its lines; lines 104-158 are the loops of getChangelogText, kept in this
\* module with hasPrefix (parsing.js line 93) for the includes of the prefix
generateChangelog(cs, ps, cards) ==
  IF Len(cs) = 0 THEN <<>>
  ELSE IF Len(ps) = 0 THEN <<>>
  ELSE getChangelogText(cs, ps, cards, <<>>, 1)

\* the commits that have an entry to write: line 121 looks the card of
\* their task up, line 128 reads their commit.author.username
EntryCommits(cs, ps) ==
  { i \in DOMAIN cs :
      \E p \in DOMAIN ps : CommitLines(cs[i], ps[p], NoCard, TRUE) # <<>> }

Log(level, message) == [level |-> level, message |-> message]

PrefixLists == { <<"fix">>, <<"fix", "feat">> }

\* the longest commit list main is run on
MaxMainCommits == 1
MainCommitLists == UNION { [1..n -> CommitPool] : n \in 0..MaxMainCommits }

\* main is entered: lines 14-25 have read the inputs.  main calls
\* recordAndPushMetrics without influxdbUrl (lines 30-40) and with a
\* tracker client that is always an object (line 14).
InitMain ==
  /\ commits \in MainCommitLists
  /\ ref \in Refs
  /\ githubToken \in BOOLEAN
  /\ yogileInstance = TRUE
  /\ influxdbUrl = "absent"
  /\ pc = "idle"
  /\ clock = T0
  /\ timestamp = 0
  /\ hasTask = FALSE
  /\ metrics = <<>>
  /\ warnings = {}
  /\ validLeadTimes = <<>>
  /\ validCycleTimes = <<>>
  /\ attempt = 0
  /\ inFlight = 0
  /\ requests = <<>>
  /\ errors = <<>>
  /\ delays = <<>>
  /\ rejection = <<>>
  /\ mainPc = "start"
  /\ prefixes \in PrefixLists
  /\ coreLog = <<>>
  /\ changelogText = NoText
  /\ telegram = <<>>
  /\ lookups = NoLookups
  /\ fn = "none"
  /\ args = <<>>
  /\ ret = <<>>

\* lines 27-30: with a pushgateway_url the metrics are recorded first
MainStart ==
  /\ mainPc = "start"
  /\ \E pushgatewayUrl \in BOOLEAN :
       IF pushgatewayUrl
         THEN mainPc' = "metrics" /\ pc' = "entry"
         ELSE mainPc' = "changelog" /\ UNCHANGED pc
  /\ UNCHANGED <<config, fnVars, lookups, clock, timestamp, hasTask, metrics, warnings,
                 validLeadTimes, validCycleTimes, pushVars, prefixes, coreLog,
                 changelogText, telegram>>

\* faulty variant: the handler of lines 43-46 hands the error to the handler of
\* lines 80-85
MetricsCatch_rethrowing(error) ==
  [log |-> Log("setFailed", error), next |-> "done"]

\* lines 43-46: the rejection is reported by core.warning and main goes on
MetricsCatch(error) ==
  [log |-> Log("warning", <<"Failed to push metrics: ">> \o error),
   next |-> "changelog"]

\* lines 30-47: recordAndPushMetrics has settled
MetricsReturn ==
  /\ mainPc = "metrics"
  /\ pc \in {"resolved", "rejected"}
  /\ IF pc = "resolved"
       THEN /\ coreLog' = Append(coreLog,
                                 Log("info", <<"DORA metrics pushed to Pushgateway">>))
            /\ mainPc' = "changelog"
       ELSE /\ coreLog' = Append(coreLog, MetricsCatch(rejection).log)
            /\ mainPc' = MetricsCatch(rejection).next
  /\ UNCHANGED <<config, fnVars, lookups, pc, clock, timestamp, hasTask, metrics, warnings,
                 validLeadTimes, validCycleTimes, pushVars, prefixes,
                 changelogText, telegram>>

\* lines 66-71
TelegramRequest(token, chatId, text) ==
  [url |-> <<"https://api.telegram.org/bot", token, "/sendMessage">>,
   chat_id |-> chatId, text |-> text, parse_mode |-> "MarkdownV2"]

\* lines 49-73: the changelog is generated and, when there is one and the
\* bot is configured, sent.  GITHUB_TOKEN falls back to the token input
\* (line 38), so a token input implies githubToken.
Changelog ==
  /\ mainPc = "changelog"
  /\ LET entries == EntryCommits(commits, prefixes)
     IN  \E given \in [entries -> CardAnswers], authors \in BOOLEAN,
            token \in BOOLEAN, chatId \in BOOLEAN :
           /\ token => githubToken
           /\ IF ~authors /\ entries # {}
                THEN /\ coreLog' = Append(coreLog,
                                          Log("setFailed", <<"Cannot read properties of undefined">>))
                     /\ mainPc' = "done"
                     /\ UNCHANGED <<changelogText, telegram>>
                ELSE LET cards == [i \in DOMAIN commits |->
                                     IF i \in entries THEN given[i] ELSE NoCard]
                         lines == getChangelogText(commits, prefixes, cards, <<>>, 1)
                     IN  /\ changelogText' = [set |-> TRUE, lines |-> lines]
                         /\ IF lines = <<>>
                              THEN /\ coreLog' = Append(coreLog, Log("info", <<"No changes found">>))
                                   /\ mainPc' = "done"
                                   /\ UNCHANGED telegram
                              ELSE IF ~token \/ ~chatId
                              THEN /\ coreLog' = Append(coreLog,
                                                        Log("console.log", <<"Generated changelog:">>))
                                   /\ mainPc' = "done"
                                   /\ UNCHANGED telegram
                              ELSE /\ telegram' = Append(telegram,
                                                         TelegramRequest("token", "chat", lines))
                                   /\ mainPc' = "telegram"
                                   /\ UNCHANGED coreLog
  /\ UNCHANGED <<config, fnVars, lookups, pc, clock, timestamp, hasTask, metrics, warnings,
                 validLeadTimes, validCycleTimes, pushVars, prefixes>>

\* what the Telegram API makes of the request
TelegramOutcomes ==
  { <<"ok">>, <<"fetch failed">>,
    <<"HTTP error! status: ", "400", ", description: ", "Bad Request">> }

\* lines 73-85: the answer of Telegram; a failure marks the action failed
TelegramResponse ==
  /\ mainPc = "telegram"
  /\ \E outcome \in TelegramOutcomes :
       /\ coreLog' = IF outcome = <<"ok">> THEN coreLog
                     ELSE Append(coreLog, Log("setFailed", outcome))
  /\ mainPc' = "done"
  /\ UNCHANGED <<config, fnVars, lookups, pc, clock, timestamp, hasTask, metrics, warnings,
                 validLeadTimes, validCycleTimes, pushVars, prefixes,
                 changelogText, telegram>>

NextMain ==
  \/ MainStart
  \/ Begin
  \/ LeadTime
  \/ CycleTime
  \/ DetectFailure
  \/ MTTR
  \/ Push
  \/ MetricsReturn
  \/ Changelog
  \/ TelegramResponse

SpecMain == InitMain /\ [][NextMain]_vars

(***************************************************************************)
(* The exported functions, each called on its own (SpecFn)                 *)
(***************************************************************************)
\* the longest commit list a calculator is called on
MaxFnCommits == 2

\* commits made 30 minutes, 1 hour, 1 day and 3 days before the call, one
\* of the future, and one without timestamp
FnCommitPool ==
  { Commit(Msg_revert, Iso(T0 - 1800 * TicksPerSecond)),
    Commit(Msg_feat, Iso(T0 - 3600 * TicksPerSecond)),
    Commit(Msg_task, Iso(T0 - 86400 * TicksPerSecond)),
    Commit(Msg_task, Iso(T0 - 259200 * TicksPerSecond)),
    Commit(Msg_feat, Iso(T0 + 1)),
    Commit(Msg_feat, Absent) }

FnCommitLists == UNION { [1..n -> FnCommitPool] : n \in 0..MaxFnCommits }

InitFn ==
  /\ commits = <<>>
  /\ ref = Ref_main
  /\ githubToken = FALSE
  /\ yogileInstance = FALSE
  /\ influxdbUrl = "absent"
  /\ pc = "idle"
  /\ clock = T0
  /\ timestamp = 0
  /\ hasTask = FALSE
  /\ metrics = <<>>
  /\ warnings = {}
  /\ validLeadTimes = <<>>
  /\ validCycleTimes = <<>>
  /\ attempt = 0
  /\ inFlight = 0
  /\ requests = <<>>
  /\ errors = <<>>
  /\ delays = <<>>
  /\ rejection = <<>>
  /\ mainPc = "none"
  /\ prefixes = <<>>
  /\ coreLog = <<>>
  /\ changelogText = NoText
  /\ telegram = <<>>
  /\ lookups = NoLookups
  /\ fn = "none"
  /\ args = <<>>
  /\ ret = <<>>

\* calculateMTTR(commits, ref) at the instant clock
Call_calculateMTTR ==
  /\ fn = "none"
  /\ \E cs \in FnCommitLists \ {<<>>}, r \in Refs :
       /\ fn' = "calculateMTTR"
       /\ args' = [commits |-> cs, ref |-> r, now |-> clock]
       /\ ret' = calculateMTTR(cs, r, Num(clock))
  /\ UNCHANGED <<config, mainVars, lookups, pc, clock, timestamp, hasTask,
                 metrics, warnings, validLeadTimes, validCycleTimes, pushVars>>

\* calculateLeadTimes(commits, githubToken) at the instant clock, for the
\* answers prs of the GitHub API
Call_calculateLeadTimes ==
  /\ fn = "none"
  /\ \E cs \in FnCommitLists, token \in BOOLEAN :
       \E prs \in [DOMAIN cs -> PRAnswers] :
         /\ fn' = "calculateLeadTimes"
         /\ args' = [commits |-> cs, githubToken |-> token, prs |-> prs,
                     now |-> clock]
         /\ ret' = calculateLeadTimes(cs, token, Num(clock), prs)
         /\ lookups' = [lookups EXCEPT !.pr = LeadLookups(cs, token)]
  /\ UNCHANGED <<config, mainVars, pc, clock, timestamp, hasTask, metrics,
                 warnings, validLeadTimes, validCycleTimes, pushVars>>

\* calculateCycleTimes(commits, yogileInstance) at the instant clock, for
\* the answers of getTask
Call_calculateCycleTimes ==
  /\ fn = "none"
  /\ \E cs \in FnCommitLists, tracker \in BOOLEAN :
       \E given \in [CycleLookups(cs, tracker) -> TaskAnswers] :
         LET answers == [i \in DOMAIN cs |->
                           IF i \in DOMAIN given THEN given[i] ELSE NoAnswer]
         IN  /\ fn' = "calculateCycleTimes"
             /\ args' = [commits |-> cs, yogileInstance |-> tracker,
                         answers |-> answers, now |-> clock]
             /\ ret' = calculateCycleTimes(cs, tracker, Num(clock), answers)
             /\ lookups' = [lookups EXCEPT !.task = CycleLookups(cs, tracker)]
  /\ UNCHANGED <<config, mainVars, pc, clock, timestamp, hasTask, metrics,
                 warnings, validLeadTimes, validCycleTimes, pushVars>>

\* messages handed to the detectors: lead \o word \o sep \o tail
MessageLeads ==
  { <<>>, <<"x"," ">>, <<"x">>, <<"u","n">> }

MessageWords ==
  { <<>>,
    <<"r","e","v","e","r","t">>,
    <<"R","e","v","e","r","t">>,
    <<"R","E","V","E","R","T">>,
    <<"r","e","v","e","r","t","e","d">>,
    <<"r","o","l","l","b","a","c","k">>,
    <<"R","o","l","l","b","a","c","k">>,
    <<"f","i","x">> }

MessageSeparators ==
  { <<>>, <<"(">>, <<":">>, <<" ">>, <<" "," ">>, <<"\t">>, <<"-">> }

MessageTails ==
  { <<>>,
    <<"c","o","m","m","i","t">>,
    <<"C","o","m","m","i","t">>,
    <<"c","o","m","m","i","t","s">>,
    <<"t","o"," ","o","l","d"," ","A","P","I">>,
    <<"\"","x","\"">> }

MessageParts ==
  [lead : MessageLeads, word : MessageWords, sep : MessageSeparators,
   tail : MessageTails]

MessageOf(p) == p.lead \o p.word \o p.sep \o p.tail

\* refs handed to the detectors: head \o mark \o tail
RefHeads ==
  { <<>>,
    <<"r","e","f","s","/","h","e","a","d","s","/">>,
    <<"r","e","f","s","/","h","e","a","d","s","/","f","e","a","t","u","r","e","/">>,
    <<"r","e","f","s","/","t","a","g","s","/">> }

RefMarks ==
  { <<>>,
    <<"h","o","t","f","i","x","/">>,
    <<"h","o","t","f","i","x","-">>,
    <<"f","i","x","-">>,
    <<"f","i","x","/">>,
    <<"e","m","e","r","g","e","n","c","y","/">>,
    <<"h","o","t","f","i","x">>,
    <<"f","i","x">>,
    <<"e","m","e","r","g","e","n","c","y">>,
    <<"H","o","t","f","i","x","/">>,
    <<"b","u","g","f","i","x","/">>,
    <<"p","r","e","f","i","x","-">>,
    <<"m","a","i","n">>,
    <<"d","e","v","e","l","o","p">>,
    <<"f","e","a","t","u","r","e","/">>,
    <<"r","e","l","e","a","s","e","/">> }

RefTails ==
  { <<>>, <<"x">>, <<"1",".","0">>, <<"/","x">>, <<"-","x">> }

RefParts == [head : RefHeads, mark : RefMarks, tail : RefTails]

RefOf(p) == p.head \o p.mark \o p.tail

\* the messages and refs of the calls that take both
IncidentMessageParts ==
  { p \in MessageParts :
      /\ p.sep \in {<<":">>, <<" ">>}
      /\ p.tail \in {<<>>, <<"c","o","m","m","i","t">>} }

IncidentRefParts ==
  { p \in RefParts :
      \/ p.head = <<>> /\ p.mark = <<>> /\ p.tail = <<>>
      \/ /\ p.head = <<"r","e","f","s","/","h","e","a","d","s","/">>
         /\ p.tail \in {<<"x">>, <<"/","x">>} }

\* isRevertCommit(message)
Call_isRevertCommit ==
  /\ fn = "none"
  /\ \E p \in MessageParts :
       /\ fn' = "isRevertCommit"
       /\ args' = [message |-> MessageOf(p)]
       /\ ret' = isRevertCommit(MessageOf(p))
  /\ UNCHANGED <<config, mainVars, pc, clock, timestamp, hasTask, metrics,
                 warnings, validLeadTimes, validCycleTimes, pushVars, lookups>>

\* isHotfixDeployment(ref)
Call_isHotfixDeployment ==
  /\ fn = "none"
  /\ \E p \in RefParts :
       /\ fn' = "isHotfixDeployment"
       /\ args' = [ref |-> RefOf(p)]
       /\ ret' = isHotfixDeployment(RefOf(p))
  /\ UNCHANGED <<config, mainVars, pc, clock, timestamp, hasTask, metrics,
                 warnings, validLeadTimes, validCycleTimes, pushVars, lookups>>

\* extractIncidentType(message, ref)
Call_extractIncidentType ==
  /\ fn = "none"
  /\ \E p \in IncidentMessageParts, q \in IncidentRefParts :
       /\ fn' = "extractIncidentType"
       /\ args' = [message |-> MessageOf(p), ref |-> RefOf(q)]
       /\ ret' = extractIncidentType(MessageOf(p), RefOf(q))
  /\ UNCHANGED <<config, mainVars, pc, clock, timestamp, hasTask, metrics,
                 warnings, validLeadTimes, validCycleTimes, pushVars, lookups>>

\* the calls of createLineProtocol: tag and field objects with the text the
\* line protocol has for them
TagCases ==
  { [entries |-> <<>>,
     text |-> <<>>],
    [entries |-> <<Entry(<<"p","r","o","j","e","c","t">>, JsString(<<"p">>)),
                  Entry(<<"e","n","v","i","r","o","n","m","e","n","t">>, JsString(<<"p","r","o","d">>))>>,
     text |-> <<"p","r","o","j","e","c","t","=","p",",","e","n","v","i","r","o","n","m","e","n","t","=","p","r","o","d">>],
    [entries |-> <<Entry(<<"e","n","v","i","r","o","n","m","e","n","t">>, JsString(<<"p","r","o","d">>)),
                  Entry(<<"p","r","o","j","e","c","t">>, JsString(<<"p">>))>>,
     text |-> <<"e","n","v","i","r","o","n","m","e","n","t","=","p","r","o","d",",","p","r","o","j","e","c","t","=","p">>],
    [entries |-> <<Entry(<<"p","r","o","j","e","c","t">>, JsString(<<"t","e","s","t">>))>>,
     text |-> <<"p","r","o","j","e","c","t","=","t","e","s","t">>],
    [entries |-> <<Entry(<<"p","r","o","j","e","c","t">>, JsString(<<"m","y"," ","p","r","o","j","e","c","t">>)),
                  Entry(<<"t","a","g">>, JsString(<<"a","=","b",",","c">>))>>,
     text |-> <<"p","r","o","j","e","c","t","=","m","y","\\"," ","p","r","o","j","e","c","t",",","t","a","g","=","a","\\","=","b","\\",",","c">>],
    [entries |-> <<Entry(<<"h","a","s","_","t","a","s","k">>, JsBoolean(TRUE))>>,
     text |-> <<"h","a","s","_","t","a","s","k","=","t","r","u","e">>] }

FieldCases ==
  { [entries |-> <<Entry(<<"c","o","u","n","t">>, JsNumber(Num(1)))>>,
     text |-> <<"c","o","u","n","t","=","1","i">>],
    [entries |-> <<Entry(<<"s","e","c","o","n","d","s">>, JsNumber(Rat(7201, 2))),
                  Entry(<<"c","o","u","n","t">>, JsNumber(Num(5)))>>,
     text |-> <<"s","e","c","o","n","d","s","=","3","6","0","0",".","5",",","c","o","u","n","t","=","5","i">>],
    [entries |-> <<Entry(<<"c","o","u","n","t">>, JsNumber(Num(5))),
                  Entry(<<"s","e","c","o","n","d","s">>, JsNumber(Rat(7201, 2)))>>,
     text |-> <<"c","o","u","n","t","=","5","i",",","s","e","c","o","n","d","s","=","3","6","0","0",".","5">>],
    [entries |-> <<Entry(<<"s","e","c","o","n","d","s">>, JsNumber(Num(-5)))>>,
     text |-> <<"s","e","c","o","n","d","s","=","-","5","i">>],
    [entries |-> <<Entry(<<"o","k">>, JsBoolean(TRUE))>>,
     text |-> <<"o","k","=","t","r","u","e">>],
    [entries |-> <<Entry(<<"m","y"," ","c","o","u","n","t">>, JsNumber(Num(1)))>>,
     text |-> <<"m","y","\\"," ","c","o","u","n","t","=","1","i">>],
    [entries |-> <<Entry(<<"n","o","t","e">>, JsString(<<"s","a","y"," ","\"","h","i","\"">>))>>,
     text |-> <<"n","o","t","e","=","\"","s","a","y"," ","\\","\"","h","i","\\","\"","\"">>] }

TimestampCases ==
  { [value |-> Big(123456789, 10),
     text |-> <<"1","2","3","4","5","6","7","8","9","0","0","0","0","0","0","0","0","0","0">>],
    [value |-> Big(T0, 8),
     text |-> <<"2","0","0","0","0","0","0","0","0","0","0","0","0","0","0","0","0">>],
    [value |-> Big(0, 0),
     text |-> <<"0">>] }

Measurements ==
  { <<"d","e","p","l","o","y","m","e","n","t">>,
    <<"l","e","a","d","_","t","i","m","e">> }

\* createLineProtocol(measurement, tags, fields, timestamp)
Call_createLineProtocol ==
  /\ fn = "none"
  /\ \E m \in Measurements, tc \in TagCases, fc \in FieldCases,
        ts \in TimestampCases :
       /\ fn' = "createLineProtocol"
       /\ args' = [measurement |-> m, tags |-> tc.entries,
                   fields |-> fc.entries, timestamp |-> ts.value]
       /\ ret' = createLineProtocol(m, tc.entries, fc.entries, ts.value)
  /\ UNCHANGED <<config, mainVars, pc, clock, timestamp, hasTask, metrics,
                 warnings, validLeadTimes, validCycleTimes, pushVars, lookups>>

\* the strings handed to escapeTag: up to MaxTagLen characters, and the
\* two strings of the tests
MaxTagLen == 3

TagChars == {"a", ",", "=", " ", "\\"}

RECURSIVE StringsUpTo(_, _)
StringsUpTo(chars, n) ==
  IF n = 0 THEN { <<>> }
  ELSE LET shorter == StringsUpTo(chars, n - 1)
       IN  shorter \cup { Append(t, c) : t \in shorter, c \in chars }

TagStrings ==
  StringsUpTo(TagChars, MaxTagLen)
    \cup { <<"m","y"," ","p","r","o","j","e","c","t">>,
           <<"a","=","b",",","c">> }

\* escapeTag(str)
Call_escapeTag ==
  /\ fn = "none"
  /\ \E str \in TagStrings :
       /\ fn' = "escapeTag"
       /\ args' = [str |-> str]
       /\ ret' = escapeTag(str)
  /\ UNCHANGED <<config, mainVars, pc, clock, timestamp, hasTask, metrics,
                 warnings, validLeadTimes, validCycleTimes, pushVars, lookups>>

\* the values handed to formatFieldValue: numbers with a finite decimal
\* expansion, the booleans, strings of up to MaxFieldLen characters and the
\* two strings of the tests
MaxFieldLen == 3

FieldNumbers ==
  { Rat(n, d) : n \in {-5, -1, 0, 1, 5, 42, 314, 7201},
                d \in {1, 2, 4, 5, 10, 100} }

FieldChars == {"a", "\"", "\\", " "}

FieldStrings ==
  StringsUpTo(FieldChars, MaxFieldLen)
    \cup { <<"h","e","l","l","o">>,
           <<"s","a","y"," ","\"","h","i","\"">> }

FieldValues ==
  { JsNumber(x) : x \in FieldNumbers }
    \cup { JsBoolean(b) : b \in BOOLEAN }
    \cup { JsString(str) : str \in FieldStrings }

\* formatFieldValue(value)
Call_formatFieldValue ==
  /\ fn = "none"
  /\ \E value \in FieldValues :
       /\ fn' = "formatFieldValue"
       /\ args' = [value |-> value]
       /\ ret' = formatFieldValue(value)
  /\ UNCHANGED <<config, mainVars, pc, clock, timestamp, hasTask, metrics,
                 warnings, validLeadTimes, validCycleTimes, pushVars, lookups>>

\* the longest commit list generateChangelog is called with
MaxLogCommits == 2

\* commit messages with the task id of their (TASK-ID): suffix, <<>> for
\* a first line without one
ChangelogCases ==
  { [message |-> <<"f","e","a","t","(","T","E","C","H","-","1",")",":"," ","a">>,
     task |-> <<"T","E","C","H","-","1">>],
    [message |-> <<"f","i","x","(","T","E","C","H","-","2",")",":"," ","b">>,
     task |-> <<"T","E","C","H","-","2">>],
    [message |-> <<"h","o","t","f","i","x","(","T","E","C","H","-","3",")",":"," ","c">>,
     task |-> <<"T","E","C","H","-","3">>],
    [message |-> <<"f","e","a","t",":"," ","d">>,
     task |-> <<>>],
    [message |-> <<"f","i","x","(","t","e","c","h","-","4",")",":"," ","e">>,
     task |-> <<>>] }

ChangelogCommitLists ==
  UNION { [1..n -> { Commit(c.message, Iso(T0)) : c \in ChangelogCases }] :
            n \in 0..MaxLogCommits }

\* the lists of distinct prefixes
ChangelogPrefixLists ==
  { ps \in UNION { [1..n -> {"feat", "fix", "hotfix"}] : n \in 0..3 } :
      \A i, j \in DOMAIN ps : i # j => ps[i] # ps[j] }

\* generateChangelog(commits, prefixes, yogileInstance, core), for the
\* answers of getCardInfo
Call_generateChangelog ==
  /\ fn = "none"
  /\ \E cs \in ChangelogCommitLists, ps \in ChangelogPrefixLists, tracker \in BOOLEAN :
       \E cards \in [DOMAIN cs -> IF tracker THEN CardAnswers ELSE {NoCard}] :
         /\ fn' = "generateChangelog"
         /\ args' = [commits |-> cs, prefixes |-> ps, cards |-> cards]
         /\ ret' = generateChangelog(cs, ps, cards)
  /\ UNCHANGED <<config, mainVars, pc, clock, timestamp, hasTask, metrics,
                 warnings, validLeadTimes, validCycleTimes, pushVars, lookups>>

NextFn ==
  \/ Call_calculateMTTR
  \/ Call_calculateLeadTimes
  \/ Call_calculateCycleTimes
  \/ Call_isRevertCommit
  \/ Call_isHotfixDeployment
  \/ Call_extractIncidentType
  \/ Call_createLineProtocol
  \/ Call_escapeTag
  \/ Call_formatFieldValue
  \/ Call_generateChangelog

SpecFn == InitFn /\ [][NextFn]_vars

(***************************************************************************)
(* Properties of pushWithRetry (SpecPush)                                  *)
(***************************************************************************)
\* C1: pushWithRetry makes at most 3 attempts, never two in flight at once;
\* every attempt but the last one made has failed, so attempt n+1 is made
\* only after attempt n failed, and the successful attempt is the last
C1_SequentialBoundedAttempts ==
  /\ Len(requests) <= 3
  /\ inFlight \in {0, 1}
  /\ Len(requests) >= 1 => Len(errors) >= Len(requests) - 1
  /\ inFlight = 1 => (pc = "inflight" /\ Len(errors) = Len(requests) - 1)
  /\ pc = "resolved" => (inFlight = 0 /\ Len(requests) = Len(errors) + 1)
  /\ pc \in {"attempt", "inflight"} => attempt = Len(errors) + 1
  /\ Len(requests) <= attempt

\* two attempts failed and the third one, the last allowed, succeeded
C1_Witness ==
  pc = "resolved" /\ Len(requests) = 3 /\ Len(errors) = 2 /\ inFlight = 0

\* C2: the n-th sleep lasts 1000 * n ms and lies between failed attempt n and
\* attempt n+1; nothing is waited before attempt 1; attempts 1 and 2 failing
\* and attempt 3 succeeding gives the sleeps 1000, 2000 and no error
C2_LinearBackoff ==
  /\ \A n \in 1..Len(delays) : delays[n] = 1000 * n
  /\ pc \in {"attempt", "inflight"} => Len(delays) = attempt - 1
  /\ pc = "sleep" => (Len(delays) = attempt /\ Len(errors) = attempt)
  /\ Len(errors) = 0 => delays = <<>>
  /\ (pc = "resolved" /\ Len(errors) = 2) =>
       (delays = <<1000, 2000>> /\ rejection = <<>>)

C2_Witness ==
  pc = "resolved" /\ Len(errors) = 2 /\ delays = <<1000, 2000>>

\* C3: when all 3 attempts fail, one error is raised; its message contains the
\* message of the third attempt's error and not those of attempts 1 and 2
\* (when they differ from it); no sleep follows the last failed attempt; no
\* error is raised in any other case
C3_LastErrorRaised ==
  /\ pc = "rejected" =>
       /\ Len(errors) = 3
       /\ Len(requests) = 3
       /\ Includes(rejection, errors[3])
       /\ \A n \in 1..2 : errors[n] # errors[3] => ~Includes(rejection, errors[n])
       /\ Len(delays) = 2
  /\ pc # "rejected" => rejection = <<>>

C3_Witness ==
  /\ pc = "rejected"
  /\ errors[1] # errors[3]
  /\ errors[2] # errors[3]
  /\ Includes(rejection, errors[3])

\* C29: all the attempts of one invocation of pushWithRetry send the same
\* body to the same URL, whatever the delivery mode
C29_SameRequest ==
  \A i, j \in DOMAIN requests : requests[i] = requests[j]

(***************************************************************************)
(* Properties of main (SpecMain)                                           *)
(***************************************************************************)
Logged(level) == { i \in DOMAIN coreLog : coreLog[i].level = level }

\* C7: when recordAndPushMetrics rejects, main reports it by core.warning
\* only: core.setFailed is never called with that error, the changelog is
\* generated next, and a changelog that is not empty is sent to Telegram
\* when the bot is configured
C7_MetricsFailureNotFatal ==
  /\ mainPc \in {"start", "metrics", "changelog"} => Logged("setFailed") = {}
  /\ \A i \in Logged("setFailed") :
       ~Includes(coreLog[i].message, <<"Failed to push metrics after ">>)
  /\ pc = "rejected" =>
       /\ mainPc \in {"metrics", "changelog", "telegram", "done"}
       /\ mainPc # "metrics" =>
            /\ Len(coreLog) >= 1
            /\ coreLog[1] = Log("warning", <<"Failed to push metrics: ">> \o rejection)
       /\ mainPc \in {"telegram", "done"} =>
            \/ changelogText.set
            \/ coreLog[Len(coreLog)] =
                 Log("setFailed", <<"Cannot read properties of undefined">>)
       /\ (mainPc \in {"telegram", "done"} /\ changelogText.set
             /\ changelogText.lines # <<>>) =>
            \/ /\ Len(telegram) = 1
               /\ telegram[1].text = changelogText.lines
            \/ coreLog[Len(coreLog)] = Log("console.log", <<"Generated changelog:">>)

\* the push failed three times and the changelog was sent all the same,
\* without any call of core.setFailed
C7_Witness ==
  /\ pc = "rejected"
  /\ mainPc = "done"
  /\ Len(errors) = 3
  /\ Len(telegram) = 1
  /\ Logged("warning") = {1}
  /\ Logged("setFailed") = {}

(***************************************************************************)
(* Properties of recordAndPushMetrics (Spec)                               *)
(***************************************************************************)
Terminal == pc \in {"resolved", "rejected"}

HasPoint(measurement) ==
  \E i \in DOMAIN metrics : metrics[i].measurement = measurement

HasMarker(payload) ==
  \E i \in DOMAIN payload :
    /\ payload[i].measurement = "deployment"
    /\ payload[i].fields = [count |-> Num(1)]

C5_RejectsOnlyOnPushExhaustion ==
  /\ pc = "rejected" =>
       /\ Len(requests) = 3
       /\ Len(errors) = 3
       /\ MatchAt(rejection, 1, <<"Failed to push metrics after ", "3", " attempts: ">>)
  /\ pc \in {"entry", "lead", "cycle", "detect", "mttr", "push", "resolved"} =>
       rejection = <<>>

\* every metric step failed and the call still resolved
C5_Witness ==
  /\ pc = "resolved"
  /\ warnings = {"lead_time", "cycle_time", "mttr"}
  /\ Len(requests) >= 1

\* C6: a metric step that throws is reported and leaves no point of its
\* kind; every other point is recorded as it would be without the error,
\* and the payload pushed is the list of the points recorded
C6_MetricErrorsAreContained ==
  /\ pc = "push" =>
       /\ HasPoint("deployment_failure") <=> detectFailures(commits, ref)
       /\ HasPoint("mttr") <=>
            ("mttr" \notin warnings /\ calculateMTTR(commits, ref, Num(clock)) # Null)
  /\ (Terminal /\ Len(commits) > 0) =>
       /\ \A kind \in warnings : ~HasPoint(kind)
       /\ HasPoint("deployment")
       /\ HasPoint("lead_time") <=> validLeadTimes # <<>>
       /\ HasPoint("cycle_time") <=> validCycleTimes # <<>>
       /\ Len(requests) >= 1
       /\ \A i \in DOMAIN requests : requests[i].body = metrics

\* the lead time step threw; the cycle time, the failure marker and the
\* recovery time were still recorded and pushed
C6_Witness ==
  /\ Terminal
  /\ "lead_time" \in warnings
  /\ HasPoint("cycle_time")
  /\ HasPoint("deployment_failure")
  /\ HasPoint("mttr")
  /\ Len(requests) >= 1
  /\ requests[1].body = metrics

InRange(s, ceiling) ==
  s.k = "num" /\ NumLe(Num(0), s) /\ NumLe(s, Num(ceiling))

\* C8 as stated: every lead-time sample lies in [0, 2592000], every
\* cycle-time sample in [0, 15552000], and so do the aggregated values
C8_SamplesWithinCeiling ==
  /\ \A i \in DOMAIN validLeadTimes : InRange(validLeadTimes[i], 2592000)
  /\ \A i \in DOMAIN validCycleTimes : InRange(validCycleTimes[i], 15552000)
  /\ \A i \in DOMAIN metrics :
       /\ metrics[i].measurement = "lead_time" =>
            InRange(metrics[i].fields.seconds, 2592000)
       /\ metrics[i].measurement = "cycle_time" =>
            InRange(metrics[i].fields.seconds, 15552000)

\* instants around the deployment instant and around both ceilings
Instants ==
  { T0 - 15552000 * TicksPerSecond - 1, T0 - 15552000 * TicksPerSecond,
    T0 - 2592000 * TicksPerSecond - 1, T0 - 2592000 * TicksPerSecond,
    T0 - 3600 * TicksPerSecond, T0 - 1, T0, T0 + 1, T0 + 2, T0 + 3 }

NumMin(a, b) == IF NumLt(b, a) THEN b ELSE a

Seconds(t1, t0) == Rat(t1 - t0, TicksPerSecond)

LeadOf(t1, t0) == LeadSamples(Num(t1), Num(t0))
CycleOf(t1, t0) ==
  CycleSamples(Commit(Msg_task, Absent), Task(Iso(t0), Absent, Absent), Num(t1))
MttrOf(t1, t0) ==
  calculateMTTR(<<Commit(Msg_revert, Iso(t0))>>, Ref_main, Num(t1))

\* C9 as stated: for the three metrics, t1 > t0 gives the sample t1 - t0 in
\* seconds, clamped to the ceiling of the metric, and t1 <= t0 gives none
C9_NoSampleUnlessLater ==
  \A t0 \in Instants :
    /\ pc = "lead" =>
         LeadOf(clock, t0) =
           IF clock > t0 THEN <<NumMin(Seconds(clock, t0), Num(2592000))>> ELSE <<>>
    /\ pc = "cycle" =>
         CycleOf(clock, t0) =
           IF clock > t0 THEN <<NumMin(Seconds(clock, t0), Num(15552000))>> ELSE <<>>
    /\ pc = "mttr" =>
         MttrOf(clock, t0) = IF clock > t0 THEN Seconds(clock, t0) ELSE Null

\* C9 amended: for lead time and cycle time, t1 >= t0 gives the sample
\* t1 - t0 in seconds clamped to the ceiling (0 for t1 = t0) and t1 < t0
\* gives none; for recovery time, which has no ceiling, t1 > t0 gives
\* t1 - t0 in seconds and t1 <= t0 gives none
C9_SampleRule ==
  \A t0 \in Instants :
    /\ pc = "lead" =>
         LeadOf(clock, t0) =
           IF clock >= t0 THEN <<NumMin(Seconds(clock, t0), Num(2592000))>> ELSE <<>>
    /\ pc = "cycle" =>
         CycleOf(clock, t0) =
           IF clock >= t0 THEN <<NumMin(Seconds(clock, t0), Num(15552000))>> ELSE <<>>
    /\ pc = "mttr" =>
         MttrOf(clock, t0) = IF clock > t0 THEN Seconds(clock, t0) ELSE Null

\* a deployment whose lead times hold a clamped sample and a sample of 0
C9_Witness ==
  /\ pc = "cycle"
  /\ \E i \in DOMAIN validLeadTimes : validLeadTimes[i] = Num(2592000)
  /\ \E i \in DOMAIN validLeadTimes : validLeadTimes[i] = Num(0)

\* C10 as stated: the seconds of every mttr point are a number above 0, and
\* no mttr point is recorded when the earliest commit is not before the
\* deployment instant
C10_MttrPositive ==
  /\ \A i \in DOMAIN metrics :
       metrics[i].measurement = "mttr" =>
         /\ metrics[i].fields.seconds.k = "num"
         /\ NumGt(metrics[i].fields.seconds, Num(0))
  /\ (pc = "push" /\ \A i \in DOMAIN commits :
                       /\ commits[i].timestamp.kind = "iso"
                       /\ commits[i].timestamp.t >= clock)
       => ~HasPoint("mttr")

\* the instants of the commits that carry a timestamp Date can parse
Stamps(cs) ==
  { cs[i].timestamp.t : i \in { j \in DOMAIN cs : cs[j].timestamp.kind = "iso" } }

Earliest(ts) == CHOOSE t \in ts : \A u \in ts : t <= u

IncidentBearing(cs, r) ==
  (\E i \in DOMAIN cs : isRevertCommit(cs[i].message)) \/ isHotfixDeployment(r)

PointsOf(measurement) ==
  { i \in DOMAIN metrics : metrics[i].measurement = measurement }

\* the sum of numeric samples, in tenths of a second
RECURSIVE SumTenths(_)
SumTenths(xs) ==
  IF xs = <<>> THEN 0
  ELSE Head(xs).n * (10 \div Head(xs).d) + SumTenths(Tail(xs))

\* the points of a kind are none for no sample, and else one point whose
\* value is the arithmetic mean of the samples
MeanEmitted(measurement, samples) ==
  IF samples = <<>>
    THEN PointsOf(measurement) = {}
    ELSE /\ Cardinality(PointsOf(measurement)) = 1
         /\ (\A i \in DOMAIN samples : samples[i].k = "num") =>
              \A p \in PointsOf(measurement) :
                metrics[p].fields.seconds = Rat(SumTenths(samples), 10 * Len(samples))

\* C12: the value emitted for lead time and for cycle time is the
\* arithmetic mean of the samples (86400 and 259200 give 172800); with no
\* sample the calculator returns null and no point of the kind is emitted
C12_MeanOrAbsent ==
  /\ MeanOf(<<Num(86400), Num(259200)>>) = Num(172800)
  /\ MeanOf(<<>>) = Null
  /\ pc = "cycle" => MeanEmitted("lead_time", validLeadTimes)
  /\ pc = "detect" => MeanEmitted("cycle_time", validCycleTimes)

\* two different cycle times and the point of their mean
C12_Witness ==
  /\ pc = "detect"
  /\ Len(validCycleTimes) = 2
  /\ validCycleTimes[1] # validCycleTimes[2]
  /\ \E p \in PointsOf("cycle_time") :
       metrics[p].fields.seconds =
         Rat(SumTenths(validCycleTimes), 10 * Len(validCycleTimes))

\* C15: without token no pull-request lookup is issued and no lead_time
\* point recorded; without tracker client no task lookup is issued and no
\* cycle_time point recorded; the payload pushed holds the deployment
\* marker, the failure marker and the recovery time all the same
C15_TokenAndTrackerGating ==
  /\ ~githubToken => (lookups.pr = {} /\ PointsOf("lead_time") = {})
  /\ ~yogileInstance => (lookups.task = {} /\ PointsOf("cycle_time") = {})
  /\ (pc = "push" /\ (~githubToken \/ ~yogileInstance)) =>
       /\ HasMarker(metrics)
       /\ HasPoint("deployment_failure") <=> IncidentBearing(commits, ref)
       /\ HasPoint("mttr") <=>
            ("mttr" \notin warnings /\ calculateMTTR(commits, ref, Num(clock)) # Null)

\* neither token nor tracker client, and the three other points recorded
C15_Witness ==
  /\ pc = "push"
  /\ ~githubToken /\ ~yogileInstance
  /\ lookups = NoLookups
  /\ HasMarker(metrics)
  /\ HasPoint("deployment_failure")
  /\ HasPoint("mttr")
  /\ ~HasPoint("lead_time") /\ ~HasPoint("cycle_time")

\* C16: detectFailures is true iff some commit message is a revert or the
\* ref is a hotfix ref, and the payload holds exactly one
\* deployment_failure point of count 1 when it is true, none when it is not
C16_FailureMarker ==
  /\ pc = "detect" =>
       (detectFailures(commits, ref) <=> IncidentBearing(commits, ref))
  /\ pc \in {"entry", "lead", "cycle", "detect"} =>
       PointsOf("deployment_failure") = {}
  /\ pc \in {"mttr", "push"} =>
       /\ Cardinality(PointsOf("deployment_failure")) =
            IF \/ \E i \in DOMAIN commits : commits[i].message = Msg_revert
               \/ ref = Ref_hotfix
              THEN 1 ELSE 0
       /\ \A p \in PointsOf("deployment_failure") :
            metrics[p].fields = [count |-> Num(1)]

\* a revert commit deployed from a hotfix ref: one failure marker
C16_Witness ==
  /\ pc = "push"
  /\ \E i \in DOMAIN commits : commits[i].message = Msg_revert
  /\ ref = Ref_hotfix
  /\ Cardinality(PointsOf("deployment_failure")) = 1

\* the instants the tasks of the tracker were created at
TaskStarts ==
  { TaskCreatedField(a).t : a \in { b \in TaskAnswers :
                                      /\ b.kind = "task"
                                      /\ TaskCreatedField(b).kind = "iso" } }

\* C24 as stated: the deployment instant is captured once per invocation:
\* the cycle-time samples and the recovery time are computed against the
\* instant of the metric timestamp, whatever time the lookups took
C24_OneInstant ==
  pc = "push" =>
    /\ \A i \in DOMAIN validCycleTimes :
         \E start \in TaskStarts :
           validCycleTimes[i] =
             NumMin(Seconds(timestamp, start), Num(15552000))
    /\ (\A i \in DOMAIN commits : commits[i].timestamp.kind = "iso") =>
         \A p \in PointsOf("mttr") :
           metrics[p].fields.seconds =
             Seconds(timestamp, Earliest(Stamps(commits)))

\* the positions of the points of one measurement in a payload
PayloadPoints(payload, measurement) ==
  { i \in DOMAIN payload : payload[i].measurement = measurement }

\* C28: a payload that holds an mttr point holds a deployment_failure
\* point, recorded before it; this goes for the list of recorded points
\* and for the body of every request sent
C28_RecoveryImpliesFailure ==
  LET implied(payload) ==
        \A m \in PayloadPoints(payload, "mttr") :
          \E f \in PayloadPoints(payload, "deployment_failure") : f < m
  IN  /\ implied(metrics)
      /\ \A i \in DOMAIN requests : implied(requests[i].body)

\* a request was sent whose body reports a recovery time and a failure
C28_Witness ==
  \E i \in DOMAIN requests :
    /\ PayloadPoints(requests[i].body, "mttr") # {}
    /\ PayloadPoints(requests[i].body, "deployment_failure") # {}

(***************************************************************************)
(* Properties of the exported functions (SpecFn)                           *)
(***************************************************************************)
\* C11 as stated: calculateMTTR returns a value only for a deployment with
\* a revert commit or a hotfix ref, null for every other deployment, and
\* the value is the deployment instant minus the earliest commit timestamp
C11_MttrOfIncident ==
  fn = "calculateMTTR" =>
    /\ ret # Null => IncidentBearing(args.commits, args.ref)
    /\ ~IncidentBearing(args.commits, args.ref) => ret = Null
    /\ ret # Null =>
         /\ Stamps(args.commits) # {}
         /\ ret = Seconds(args.now, Earliest(Stamps(args.commits)))

\* the same for deployments whose commits all carry a timestamp
C11_MttrOfStampedIncident ==
  (fn = "calculateMTTR"
     /\ \A i \in DOMAIN args.commits : args.commits[i].timestamp.kind = "iso") =>
    /\ ret # Null => IncidentBearing(args.commits, args.ref)
    /\ ~IncidentBearing(args.commits, args.ref) => ret = Null
    /\ ret # Null => ret = Seconds(args.now, Earliest(Stamps(args.commits)))

\* the creation timestamp a task answer carries
CreatedOf(answer) ==
  IF answer.timestamp.kind # "absent" THEN answer.timestamp
  ELSE IF answer.created.kind # "absent" THEN answer.created
  ELSE answer.createdAt

\* the cycle time a commit is expected to contribute: none without task
\* reference, for a task not found, for a failed lookup, for a creation
\* timestamp that does not parse or lies in the future
ExpectedCycle(commit, answer, now) ==
  IF commit.message # Msg_task THEN <<>>
  ELSE IF answer.kind \in {"throw", "null"} THEN <<>>
  ELSE IF CreatedOf(answer).kind # "iso" THEN <<>>
  ELSE IF CreatedOf(answer).t > now THEN <<>>
  ELSE <<NumMin(Seconds(now, CreatedOf(answer).t), Num(15552000))>>

RECURSIVE ExpectedCycles(_, _, _, _)
ExpectedCycles(cs, answers, now, i) ==
  IF i > Len(cs) THEN <<>>
  ELSE ExpectedCycle(cs[i], answers[i], now) \o ExpectedCycles(cs, answers, now, i + 1)

\* C13: calculateCycleTimes looks a task up for the commits with a task
\* reference only; a commit without reference, with a task not found, with
\* a failed lookup or with an unparseable creation timestamp adds nothing,
\* and the result is the mean of the samples of the other commits, or null
C13_CycleSkips ==
  (fn = "calculateCycleTimes" /\ args.yogileInstance) =>
    /\ lookups.task = { i \in DOMAIN args.commits : args.commits[i].message = Msg_task }
    /\ ret.samples = ExpectedCycles(args.commits, args.answers, args.now, 1)
    /\ ret.mean = Null <=> ret.samples = <<>>
    /\ ret.samples # <<>> =>
         ret.mean = Rat(SumTenths(ret.samples), 10 * Len(ret.samples))

\* the lookup of the first commit failed, the task of the second one was
\* found: the result is the cycle time of the second
C13_Witness ==
  /\ fn = "calculateCycleTimes"
  /\ Len(args.commits) = 2
  /\ args.answers[1].kind = "throw"
  /\ args.answers[2].kind = "task"
  /\ Len(ret.samples) = 1
  /\ ret.mean = ret.samples[1]

\* the start instant of a commit's lead time: the first commit of its pull
\* request, or its own timestamp when the lookup of the pull request or of
\* its commits fails or finds nothing
StartOf(commit, pr) ==
  IF pr.kind = "pr" /\ pr.commits = "ok" THEN pr.first ELSE commit.timestamp

ExpectedLead(commit, pr, now) ==
  IF StartOf(commit, pr).t > now THEN <<>>
  ELSE <<NumMin(Seconds(now, StartOf(commit, pr).t), Num(2592000))>>

RECURSIVE ExpectedLeads(_, _, _, _)
ExpectedLeads(cs, prs, now, i) ==
  IF i > Len(cs) THEN <<>>
  ELSE ExpectedLead(cs[i], prs[i], now) \o ExpectedLeads(cs, prs, now, i + 1)

\* C14: a failed pull-request lookup makes the commit's own timestamp its
\* start instant: for start instants that parse, every commit adds the
\* sample of its start instant, lookup failure or not, and
\* calculateLeadTimes returns their mean
C14_LookupFailureFallsBack ==
  (fn = "calculateLeadTimes" /\ args.githubToken
     /\ \A i \in DOMAIN args.commits :
          StartOf(args.commits[i], args.prs[i]).kind = "iso") =>
    /\ lookups.pr = DOMAIN args.commits
    /\ ret.samples = ExpectedLeads(args.commits, args.prs, args.now, 1)
    /\ ret.mean = Null <=> ret.samples = <<>>
    /\ ret.samples # <<>> =>
         ret.mean = Rat(SumTenths(ret.samples), 10 * Len(ret.samples))

\* the lookup failed for the first commit and found a pull request for the
\* second: both add a sample, the first one from its own timestamp
C14_Witness ==
  /\ fn = "calculateLeadTimes"
  /\ Len(args.commits) = 2
  /\ args.prs[1].kind = "error"
  /\ args.prs[2].kind = "pr" /\ args.prs[2].commits = "ok"
  /\ args.commits[1].timestamp.kind = "iso"
  /\ Len(ret.samples) = 2
  /\ ret.samples[1] = Seconds(args.now, args.commits[1].timestamp.t)
  /\ ret.samples[2] = Num(3600)

\* the lead time of a start instant: none for a start in the future, else
\* the seconds up to now, at most 30 days
LeadFrom(start, now) ==
  IF start > now THEN <<>>
  ELSE <<NumMin(Seconds(now, start), Num(2592000))>>

RevertWords ==
  { <<"r","e","v","e","r","t">>, <<"R","e","v","e","r","t">>,
    <<"R","E","V","E","R","T">> }

RollbackWords ==
  { <<"r","o","l","l","b","a","c","k">>, <<"R","o","l","l","b","a","c","k">> }

Blank(sep) == sep \in { <<" ">>, <<" "," ">>, <<"\t">> }

\* the word starts the message, or follows a space
AtWordStart(p) == p.lead \in { <<>>, <<"x"," ">> }

DocumentedRevert(p) ==
  \* (a) starts with revert, any case, then "(", ":" or white space
  \/ /\ p.lead = <<>>
     /\ p.word \in RevertWords
     /\ p.sep \in { <<"(">>, <<":">> } \/ Blank(p.sep)
  \* (b) Revert "..."
  \/ /\ p.lead = <<>>
     /\ p.word = <<"R","e","v","e","r","t">>
     /\ Blank(p.sep)
     /\ p.tail = <<"\"","x","\"">>
  \* (c) the phrase "revert commit", any case, as whole words
  \/ /\ AtWordStart(p)
     /\ p.word \in RevertWords
     /\ Blank(p.sep)
     /\ p.tail \in { <<"c","o","m","m","i","t">>, <<"C","o","m","m","i","t">> }
  \* (d) the word "rollback", any case, as a whole word
  \/ /\ AtWordStart(p)
     /\ p.word \in RollbackWords
     /\ p.sep # <<>> \/ p.tail \in { <<>>, <<"\"","x","\"">> }

\* C18: isRevertCommit(m) is true iff m starts with revert (any case) and
\* "(", ":" or white space, or is of the form Revert "...", or contains the
\* whole-word phrase "revert commit", or the whole word "rollback"; it is
\* false for an empty message and for "reverted to old API"
C18_RevertPatterns ==
  fn = "isRevertCommit" =>
    /\ \A p \in MessageParts :
         MessageOf(p) = args.message => (ret <=> DocumentedRevert(p))
    /\ args.message = <<>> => ~ret
    /\ args.message =
         <<"r","e","v","e","r","t","e","d"," ","t","o"," ","o","l","d"," ","A","P","I">>
         => ~ret

\* "reverted to old API" was judged not to be a revert
C18_Witness ==
  /\ fn = "isRevertCommit"
  /\ args.message =
       <<"r","e","v","e","r","t","e","d"," ","t","o"," ","o","l","d"," ","A","P","I">>
  /\ ~ret

\* the verdict the five documented substrings give on head \o mark \o tail
DocumentedHotfix(p) ==
  \/ p.mark \in { <<"h","o","t","f","i","x","/">>, <<"h","o","t","f","i","x","-">>,
                  <<"f","i","x","-">>, <<"f","i","x","/">>,
                  <<"e","m","e","r","g","e","n","c","y","/">> }
  \* Hotfix/ and bugfix/ contain fix/, prefix- contains fix-
  \/ p.mark \in { <<"H","o","t","f","i","x","/">>, <<"b","u","g","f","i","x","/">>,
                  <<"p","r","e","f","i","x","-">> }
  \/ /\ p.mark \in { <<"h","o","t","f","i","x">>, <<"f","i","x">> }
     /\ p.tail \in { <<"/","x">>, <<"-","x">> }
  \/ /\ p.mark = <<"e","m","e","r","g","e","n","c","y">>
     /\ p.tail = <<"/","x">>

\* C19: isHotfixDeployment(r) is true iff r contains hotfix/, hotfix-, fix-,
\* fix/ or emergency/ somewhere; it is false for an empty ref and for main,
\* develop, feature/ and release/ refs without such a substring
C19_HotfixSubstrings ==
  fn = "isHotfixDeployment" =>
    /\ \A p \in RefParts :
         RefOf(p) = args.ref => (ret <=> DocumentedHotfix(p))
    /\ args.ref = <<>> => ~ret
    /\ args.ref = Ref_main => ~ret

\* refs/heads/hotfix/x was judged a hotfix deployment
C19_Witness ==
  /\ fn = "isHotfixDeployment"
  /\ args.ref = Ref_hotfix
  /\ ret

\* C17: extractIncidentType returns "revert" whenever the message is a
\* revert, whatever the ref; "hotfix" iff the message is not a revert and the
\* ref is hotfix-style; null iff neither holds
C17_RevertBeforeHotfix ==
  fn = "extractIncidentType" =>
    \A p \in IncidentMessageParts :
      MessageOf(p) = args.message =>
        \A q \in IncidentRefParts :
          RefOf(q) = args.ref =>
            /\ DocumentedRevert(p) => ret = "revert"
            /\ ret = "hotfix" <=> (~DocumentedRevert(p) /\ DocumentedHotfix(q))
            /\ ret = "null" <=> (~DocumentedRevert(p) /\ ~DocumentedHotfix(q))

\* a revert deployed from refs/heads/hotfix/x was typed "revert"
C17_Witness ==
  /\ fn = "extractIncidentType"
  /\ args.message = <<"r","e","v","e","r","t",":">>
  /\ args.ref = Ref_hotfix
  /\ ret = "revert"

\* C20: createLineProtocol returns the measurement, a comma, the tags as
\* key=value joined by commas in the order of the tag object, a space, the
\* fields as key=value joined by commas in the order of the field object, a
\* space and the timestamp; the deployment marker of project p in prod at
\* 1234567890000000000 is
\* "deployment,project=p,environment=prod count=1i 1234567890000000000"
C20_LineFormat ==
  fn = "createLineProtocol" =>
    /\ \A tc \in TagCases, fc \in FieldCases, ts \in TimestampCases :
         ( /\ tc.entries = args.tags
           /\ fc.entries = args.fields
           /\ ts.value = args.timestamp ) =>
           ret = args.measurement \o <<",">> \o tc.text \o <<" ">> \o fc.text
                   \o <<" ">> \o ts.text
    /\ ( /\ args.measurement = <<"d","e","p","l","o","y","m","e","n","t">>
         /\ args.tags = <<Entry(<<"p","r","o","j","e","c","t">>, JsString(<<"p">>)),
                          Entry(<<"e","n","v","i","r","o","n","m","e","n","t">>, JsString(<<"p","r","o","d">>))>>
         /\ args.fields = <<Entry(<<"c","o","u","n","t">>, JsNumber(Num(1)))>>
         /\ args.timestamp = Big(123456789, 10) ) =>
         ret = <<"d","e","p","l","o","y","m","e","n","t",",","p","r","o","j","e","c","t","=","p",",","e","n","v","i","r","o","n","m","e","n","t","=","p","r","o","d"," ","c","o","u","n","t","=","1","i"," ","1","2","3","4","5","6","7","8","9","0","0","0","0","0","0","0","0","0","0">>

\* the example call was made
C20_Witness ==
  /\ fn = "createLineProtocol"
  /\ args.measurement = <<"d","e","p","l","o","y","m","e","n","t">>
  /\ Len(args.tags) = 2
  /\ args.tags[1].key = <<"p","r","o","j","e","c","t">>
  /\ args.fields = <<Entry(<<"c","o","u","n","t">>, JsNumber(Num(1)))>>
  /\ args.timestamp = Big(123456789, 10)
  /\ ret = <<"d","e","p","l","o","y","m","e","n","t",",","p","r","o","j","e","c","t","=","p",",","e","n","v","i","r","o","n","m","e","n","t","=","p","r","o","d"," ","c","o","u","n","t","=","1","i"," ","1","2","3","4","5","6","7","8","9","0","0","0","0","0","0","0","0","0","0">>

\* the three characters the line protocol reserves in tags and keys
Reserved == {",", "=", " "}

\* the number of places of s that hold a character of cs and are not
\* preceded by a backslash
Unescaped(s, cs) ==
  Cardinality({ i \in DOMAIN s : s[i] \in cs /\ (i = 1 \/ s[i - 1] # "\\") })

\* C21: escapeTag puts one backslash before each comma, equals sign and
\* space and changes nothing else, so a string without them is returned
\* unchanged; in an encoded line the only commas, equals signs and spaces
\* without a backslash before them are the separators of the format
C21_EscapeTag ==
  /\ fn = "escapeTag" =>
       LET str == args.str
           \* the place of str[i] in the result
           at(i) == i + Cardinality({ k \in 1..i : str[k] \in Reserved })
       IN  /\ Len(ret) = at(Len(str))
           /\ \A i \in DOMAIN str :
                /\ ret[at(i)] = str[i]
                /\ str[i] \in Reserved => ret[at(i) - 1] = "\\"
           /\ (\A i \in DOMAIN str : str[i] \notin Reserved) => ret = str
           /\ str = <<"m","y"," ","p","r","o","j","e","c","t">>
                => ret = <<"m","y","\\"," ","p","r","o","j","e","c","t">>
           /\ str = <<"a","=","b",",","c">> => ret = <<"a","\\","=","b","\\",",","c">>
  /\ ( /\ fn = "createLineProtocol"
       /\ \A i \in DOMAIN args.fields : args.fields[i].value.type # "string" ) =>
       /\ Unescaped(ret, {" "}) = 2
       /\ Unescaped(ret, {"="}) = Len(args.tags) + Len(args.fields)
       /\ Unescaped(ret, {","}) =
            1 + (IF args.tags = <<>> THEN 0 ELSE Len(args.tags) - 1)
              + (Len(args.fields) - 1)

\* "a=b,c" was escaped
C21_Witness ==
  /\ fn = "escapeTag"
  /\ args.str = <<"a","=","b",",","c">>
  /\ ret = <<"a","\\","=","b","\\",",","c">>

DigitValue(c) == CHOOSE v \in 0..9 : DigitChars[v + 1] = c

\* the number a string of decimal digits stands for
RECURSIVE DigitsValue(_)
DigitsValue(ds) ==
  IF ds = <<>> THEN 0
  ELSE 10 * DigitsValue(SubSeq(ds, 1, Len(ds) - 1)) + DigitValue(ds[Len(ds)])

RECURSIVE PowerOfTen(_)
PowerOfTen(k) == IF k = 0 THEN 1 ELSE 10 * PowerOfTen(k - 1)

AllDigits(ds) == ds # <<>> /\ \A i \in DOMAIN ds : ds[i] \in Digits

\* text is a decimal numeral, with an optional sign and fraction, of x
DecimalOf(text, x) ==
  LET negative == text # <<>> /\ text[1] = "-"
      body == IF negative THEN Tail(text) ELSE text
      dots == { i \in DOMAIN body : body[i] = "." }
  IN  IF dots = {}
        THEN /\ AllDigits(body)
             /\ x = Num((IF negative THEN -1 ELSE 1) * DigitsValue(body))
        ELSE /\ Cardinality(dots) = 1
             /\ LET dot == CHOOSE i \in dots : TRUE
                    whole == SubSeq(body, 1, dot - 1)
                    fraction == SubSeq(body, dot + 1, Len(body))
                IN  /\ AllDigits(whole)
                    /\ AllDigits(fraction)
                    /\ x = Rat((IF negative THEN -1 ELSE 1)
                                 * (DigitsValue(whole) * PowerOfTen(Len(fraction))
                                      + DigitsValue(fraction)),
                               PowerOfTen(Len(fraction)))

\* C22: formatFieldValue writes an integer as its decimal digits and i, any
\* other number as its decimal numeral, a boolean as true or false, and a
\* string between double quotes with a backslash before each inner quote
C22_FieldValue ==
  fn = "formatFieldValue" =>
    LET value == args.value
    IN  /\ (value.type = "number" /\ value.n.d = 1) =>
             /\ ret[Len(ret)] = "i"
             /\ \A i \in DOMAIN ret : ret[i] # "."
             /\ DecimalOf(SubSeq(ret, 1, Len(ret) - 1), value.n)
        /\ (value.type = "number" /\ value.n.d # 1) =>
             /\ \E i \in DOMAIN ret : ret[i] = "."
             /\ DecimalOf(ret, value.n)
        /\ value = JsNumber(Num(42)) => ret = <<"4","2","i">>
        /\ value = JsNumber(Num(0)) => ret = <<"0","i">>
        /\ value = JsNumber(Num(-5)) => ret = <<"-","5","i">>
        /\ value = JsNumber(Rat(314, 100)) => ret = <<"3",".","1","4">>
        /\ value.type = "boolean" =>
             ret = IF value.b THEN <<"t","r","u","e">> ELSE <<"f","a","l","s","e">>
        /\ value.type = "string" =>
             LET str == value.s
                 \* the place of str[i] in the result
                 at(i) == 1 + i + Cardinality({ k \in 1..i : str[k] = "\"" })
             IN  /\ Len(ret) = at(Len(str)) + 1
                 /\ ret[1] = "\""
                 /\ ret[Len(ret)] = "\""
                 /\ \A i \in DOMAIN str :
                      /\ ret[at(i)] = str[i]
                      /\ str[i] = "\"" => ret[at(i) - 1] = "\\"
        /\ value = JsString(<<"s","a","y"," ","\"","h","i","\"">>)
             => ret = <<"\"","s","a","y"," ","\\","\"","h","i","\\","\"","\"">>

\* say "hi" was written as a quoted string
C22_Witness ==
  /\ fn = "formatFieldValue"
  /\ args.value = JsString(<<"s","a","y"," ","\"","h","i","\"">>)
  /\ ret = <<"\"","s","a","y"," ","\\","\"","h","i","\\","\"","\"">>

\* the list seq in the order p, and without its element i
Permuted(seq, p) == [i \in DOMAIN seq |-> seq[p[i]]]
Without(seq, i) == SubSeq(seq, 1, i - 1) \o SubSeq(seq, i + 1, Len(seq))

\* C27: for one deployment instant and one lookup result per commit, the
\* mean lead time and the mean cycle time are the same for every order of
\* the commit list, and the same without a commit that yields no sample
C27_OrderIndependent ==
  /\ fn = "calculateLeadTimes" =>
       LET mean(cs, prs) ==
             calculateLeadTimes(cs, args.githubToken, Num(args.now), prs).mean
       IN  /\ \A p \in Permutations(DOMAIN args.commits) :
                mean(Permuted(args.commits, p), Permuted(args.prs, p)) = ret.mean
           /\ \A i \in DOMAIN args.commits :
                mean(<<args.commits[i]>>, <<args.prs[i]>>) = Null =>
                  mean(Without(args.commits, i), Without(args.prs, i)) = ret.mean
  /\ fn = "calculateCycleTimes" =>
       LET mean(cs, answers) ==
             calculateCycleTimes(cs, args.yogileInstance, Num(args.now), answers).mean
       IN  /\ \A p \in Permutations(DOMAIN args.commits) :
                mean(Permuted(args.commits, p), Permuted(args.answers, p)) = ret.mean
           /\ \A i \in DOMAIN args.commits :
                mean(<<args.commits[i]>>, <<args.answers[i]>>) = Null =>
                  mean(Without(args.commits, i), Without(args.answers, i)) = ret.mean

\* a call for two commits of which only the second yields a lead time
C27_Witness ==
  /\ fn = "calculateLeadTimes"
  /\ Len(args.commits) = 2
  /\ ret.mean # Null
  /\ ~IsNaN(ret.mean)
  /\ calculateLeadTimes(<<args.commits[1]>>, args.githubToken, Num(args.now),
                        <<args.prs[1]>>).mean = Null

\* the entries of the changelog that link to the task id
EntriesOf(lines, task) ==
  { i \in DOMAIN lines : lines[i].kind = "entry" /\ lines[i].taskId = task }

\* the commits whose first line carries the task id as its suffix
CommitsOf(cs, task) ==
  { i \in DOMAIN cs :
      \E c \in ChangelogCases : c.message = cs[i].message /\ c.task = task }

\* each commit is listed at most once: a task id has no more entries than
\* commits
ListedAtMostOnce ==
  \A c \in ChangelogCases :
    c.task # <<>> =>
      Cardinality(EntriesOf(ret, c.task)) <= Cardinality(CommitsOf(args.commits, c.task))

\* the titles of the sections follow the order of the prefixes list
SectionsInOrder ==
  \A i, j \in DOMAIN ret :
    (i < j /\ ret[i].kind = "title" /\ ret[j].kind = "title") =>
      \E p, q \in DOMAIN args.prefixes :
        /\ p < q
        /\ ret[i].text = Locale_prefixes(args.prefixes[p])
        /\ ret[j].text = Locale_prefixes(args.prefixes[q])

\* every entry is the entry of a commit with a (TASK-ID): suffix
OnlyTaskCommitsListed ==
  \A i \in DOMAIN ret :
    ret[i].kind = "entry" =>
      /\ ret[i].taskId # <<>>
      /\ CommitsOf(args.commits, ret[i].taskId) # {}

\* C30: generateChangelog lists each commit in at most one prefix section,
\* puts the sections in the order of the prefixes list and never lists a
\* commit whose first line has no (TASK-ID): suffix
C30_OneSectionPerCommit ==
  fn = "generateChangelog" =>
    /\ ListedAtMostOnce
    /\ SectionsInOrder
    /\ OnlyTaskCommitsListed

(***************************************************************************)
(* Properties of the common tags (SpecTags)                                *)
(***************************************************************************)
\* some commit message of the deployment carries a task reference, by the
\* table of the messages
DeploymentHasTask ==
  \E i \in DOMAIN commits :
    \E c \in TaskMessageCases : c.message = commits[i].message /\ c.task

\* C23: has_task is yes iff some commit message contains upper-case
\* letters, a dash and digits (tech-123 does not count), and every point of
\* the invocation, recorded or pushed, carries this value with the same
\* project, repository and environment
C23_HasTaskTag ==
  LET expected == IF DeploymentHasTask THEN "yes" ELSE "no"
      Tagged(point) ==
        /\ point.tags.has_task = expected
        /\ point.tags.project = projectName
        /\ point.tags.repository = repository
        /\ point.tags.environment = environment
  IN  /\ pc \notin {"entry"} => (hasTask <=> DeploymentHasTask)
      /\ \A i \in DOMAIN metrics : Tagged(metrics[i])
      /\ \A r \in DOMAIN requests :
           \A i \in DOMAIN requests[r].body : Tagged(requests[r].body[i])

\* a deployment of "tech-123 lowercase" alone from a hotfix branch pushed
\* its deployment, lead_time, deployment_failure and mttr points with
\* has_task=no
C23_Witness ==
  /\ pc = "resolved"
  /\ Len(commits) = 1
  /\ commits[1].message = <<"t","e","c","h","-","1","2","3"," ","l","o","w","e","r","c","a","s","e">>
  /\ Len(requests) >= 1
  /\ { requests[1].body[i].measurement : i \in DOMAIN requests[1].body }
       = {"deployment", "lead_time", "deployment_failure", "mttr"}
  /\ \A i \in DOMAIN requests[1].body : requests[1].body[i].tags.has_task = "no"

\* the only revert message of these deployments is Revert "x"
DeploymentHasRevert ==
  \E i \in DOMAIN commits : commits[i].message = Msg_revert

\* C26: an mttr point carries incident_type=revert when some commit is a
\* revert, whatever the ref, and incident_type=hotfix otherwise, never
\* unknown; no other point carries incident_type; a deployment of one
\* revert commit of 1800 s ago from refs/heads/main records one mttr point
\* of about 1800 s tagged revert
C26_IncidentType ==
  /\ \A i \in DOMAIN metrics :
       IF metrics[i].measurement = "mttr"
         THEN /\ "incident_type" \in DOMAIN metrics[i].tags
              /\ metrics[i].tags.incident_type =
                   IF DeploymentHasRevert THEN "revert" ELSE "hotfix"
              /\ ~DeploymentHasRevert => ref = Ref_hotfix
         ELSE "incident_type" \notin DOMAIN metrics[i].tags
  /\ ( /\ pc = "push"
       /\ "mttr" \notin warnings
       /\ commits = <<Commit(Msg_revert, Iso(T0 - 1800 * TicksPerSecond))>>
       /\ ref = Ref_main ) =>
       /\ Cardinality(PointsOf("mttr")) = 1
       /\ \A p \in PointsOf("mttr") :
            /\ metrics[p].tags.incident_type = "revert"
            /\ NumLe(Num(1800), metrics[p].fields.seconds)
            /\ NumLe(metrics[p].fields.seconds, Num(1801))

\* a revert deployed from a hotfix branch recorded an mttr point tagged
\* revert
C26_Witness ==
  /\ pc = "push"
  /\ ref = Ref_hotfix
  /\ DeploymentHasRevert
  /\ \E p \in PointsOf("mttr") : metrics[p].tags.incident_type = "revert"

====
